---- MODULE Spec2Model ----
(***************************************************************************)
(* A model of the Iceberg REST catalog service (kpkab/sample): the         *)
(* relational store behind app/database.py, the table life cycle and the   *)
(* commit engine of app/services/table.py, and the load route with its     *)
(* process-local response cache of app/api/tables.py.                      *)
(*                                                                         *)
(* Every Database.execute / fetch_one / fetch_all call acquires its own    *)
(* pooled connection, so each SQL statement is a transaction of its own;   *)
(* the connection that Database.transaction() opens is never handed to     *)
(* those calls.  The store is therefore one variable (db) that every       *)
(* statement reads and writes directly.                                    *)
(*                                                                         *)
(* The lists of a commit request are consumed by the loops of update_table *)
(* and commit_transaction one element per iteration; the model supplies    *)
(* the requirement list when the call starts and each update when the      *)
(* loop reaches it.                                                        *)
(***************************************************************************)
EXTENDS Integers, Sequences, FiniteSets, TLC

\* ------------------------------------------------------------------ bounds

\* Handler invocations and update applications of one client that write to the store.
MaxOps == 4
\* Wall-clock milliseconds the clock can reach.
MaxClock == 1
\* Table rows ever inserted.
MaxTables == 2
MaxPageSize == 3

\* SQL NULL / Python None in an integer-valued column or field.
NULL == -1

Clients == {"A", "B"}

\* --------------------------------------------------------------- variables

VARIABLES
    db,      \* the relational store: one field per table of the schema
    cache,   \* TableService._table_metadata_cache: cache key -> envelope
    now,     \* int(time.time() * 1000)
    proc,    \* per client: the position of its running update_table / commit_transaction
    resp,    \* per client: the outcome of its last finished call
    ops      \* per client: number of writing steps taken so far

vars == <<db, cache, now, proc, resp, ops>>

\* ----------------------------------------------------------------- helpers

Max(S) == CHOOSE x \in S : \A y \in S : y <= x

\* SQL MIN over a column: NULL when no row matches.
SqlMin(S) == IF S = {} THEN NULL ELSE CHOOSE x \in S : \A y \in S : x <= y

\* SQL MAX over a column: NULL when no row matches.
SqlMax(S) == IF S = {} THEN NULL ELSE Max(S)

\* A plain assignment in place of GREATEST: the column takes the new value.
Overwrite(a, b) == b

\* SQL GREATEST(a, b): NULL arguments are ignored.
Greatest(a, b) == IF b = NULL THEN a ELSE IF a = NULL THEN b ELSE IF a >= b THEN a ELSE b

IsPrefix(p, s) == Len(p) <= Len(s) /\ \A i \in 1..Len(p) : p[i] = s[i]

RECURSIVE JoinDot(_)
\* '.'.join(levels)
JoinDot(levels) ==
    IF levels = <<>> THEN ""
    ELSE IF Len(levels) = 1 THEN levels[1]
    ELSE levels[1] \o "." \o JoinDot(Tail(levels))

\* cache_key = f"{'.'.join(namespace_levels)}.{table_name}"
CacheKey(levels, name) == JoinDot(levels) \o "." \o name

\* w in s, for Python strings
Contains(s, w) ==
    \E i \in 1..(Len(s) - Len(w) + 1) : SubSeq(s, i, i + Len(w) - 1) = w

UpperCase == "ABCDEFGHIJKLMNOPQRSTUVWXYZ"
LowerCase == "abcdefghijklmnopqrstuvwxyz"

\* The lower-case letter of each upper-case letter.
LowerOf ==
    [ch \in {SubSeq(UpperCase, i, i) : i \in 1..26} |->
        LET i == CHOOSE i \in 1..26 : SubSeq(UpperCase, i, i) = ch
        IN  SubSeq(LowerCase, i, i)]

RECURSIVE Lower(_)
\* str.lower()
Lower(s) ==
    IF s = "" THEN ""
    ELSE LET ch == SubSeq(s, 1, 1)
         IN  (IF ch \in DOMAIN LowerOf THEN LowerOf[ch] ELSE ch)
             \o Lower(SubSeq(s, 2, Len(s)))

RECURSIVE JoinQuoted(_)
JoinQuoted(levels) ==
    IF levels = <<>> THEN ""
    ELSE IF Len(levels) = 1 THEN "'" \o levels[1] \o "'"
    ELSE "'" \o levels[1] \o "', " \o JoinQuoted(Tail(levels))

\* f"{namespace_levels}": the str() of a list of strings
Repr(levels) == "[" \o JoinQuoted(levels) \o "]"

\* f"{namespace_levels}.{table_name}"
Qualified(levels, name) == Repr(levels) \o "." \o name

\* etag = f'"{table_uuid}-{last_updated_ms}"'
ETag(table_uuid, last_updated_ms) == <<table_uuid, last_updated_ms>>

\* get_default_warehouse_location(): the fallback warehouse, as path segments
DefaultWarehouse == <<"wh">>

NoResp == [op |-> "none"]
Idle == [pc |-> "idle"]

\* ------------------------------------------------------------------- store

EmptyDb ==
    [ namespaces        |-> {},
      tables            |-> {},
      schemas           |-> {},
      partition_specs   |-> {},
      sort_orders       |-> {},
      snapshots         |-> {},
      snapshot_refs     |-> {},
      table_statistics  |-> {},
      partition_statistics |-> {},
      metadata_log      |-> {},
      views             |-> {},
      storage_credentials |-> {},
      transactions      |-> {},
      next_ns_id        |-> 1,
      next_table_id     |-> 1,
      next_uuid         |-> 1,
      next_txn_id       |-> 1,
      next_cred_id      |-> 1 ]

\* SELECT id FROM namespaces WHERE levels = $1
NamespaceId(d, levels) ==
    IF \E n \in d.namespaces : n.levels = levels
    THEN (CHOOSE n \in d.namespaces : n.levels = levels).id
    ELSE NULL

\* SELECT ... FROM tables t WHERE t.namespace_id = $1 AND t.name = $2
TableRow(d, ns_id, name) ==
    IF \E t \in d.tables : t.namespace_id = ns_id /\ t.name = name
    THEN CHOOSE t \in d.tables : t.namespace_id = ns_id /\ t.name = name
    ELSE [id |-> NULL]

\* SELECT * FROM tables WHERE id = $1
TableById(d, tid) ==
    IF \E t \in d.tables : t.id = tid
    THEN CHOOSE t \in d.tables : t.id = tid
    ELSE [id |-> NULL]

\* UPDATE tables SET ... WHERE id = $1 (no row: nothing changes)
SetHeader(d, tid, f, v) ==
    [d EXCEPT !.tables = {IF t.id = tid THEN [t EXCEPT ![f] = v] ELSE t : t \in d.tables}]

Rows(d, child, tid) == {r \in d[child] : r.table_id = tid}

\* The header and every child row of one table, as a later reader sees them.
TableState(d, tid) ==
    [ header               |-> TableById(d, tid),
      schemas              |-> Rows(d, "schemas", tid),
      partition_specs      |-> Rows(d, "partition_specs", tid),
      sort_orders          |-> Rows(d, "sort_orders", tid),
      snapshots            |-> Rows(d, "snapshots", tid),
      snapshot_refs        |-> Rows(d, "snapshot_refs", tid),
      table_statistics     |-> Rows(d, "table_statistics", tid),
      partition_statistics |-> Rows(d, "partition_statistics", tid),
      metadata_log         |-> Rows(d, "metadata_log", tid) ]

\* -------------------------------------------------------------- credentials

\* Python None / a Python list, where a field may hold either.
PyNone == [null |-> TRUE]
PyList(s) == [null |-> FALSE, items |-> s]

\* All orderings of a finite set of rows, as sequences.
Orderings(S) ==
    {s \in [1..Cardinality(S) -> S] : \A i, j \in 1..Cardinality(S) : i # j => s[i] # s[j]}

\* ... ORDER BY LENGTH(warehouse) DESC: rows of equal length come in any order.
ByWarehouseDesc(S) ==
    {s \in Orderings(S) : \A i, j \in 1..Cardinality(S) :
        i < j => Len(s[i].warehouse) >= Len(s[j].warehouse)}

\* StorageCredential(prefix=record["warehouse"], config=config)
AsStorageCredential(row) == [prefix |-> row.warehouse, config |-> row.config]

\* CredentialService.get_credentials_for_location: the global rows whose warehouse
\* is a prefix of the location.
CredentialsForLocation(d, location) ==
    {r \in d.storage_credentials : r.table_id = NULL /\ IsPrefix(r.warehouse, location)}

\* TableService.get_storage_credentials: the lists the store may return for a table.
StorageCredentials(d, tid) ==
    LET t == TableById(d, tid)
        own == {r \in d.storage_credentials : r.table_id = tid}
        byLocation == CredentialsForLocation(d, t.location)
        rows == IF own # {} THEN Orderings(own) ELSE ByWarehouseDesc(byLocation)
    IN  IF t.id = NULL THEN {<<>>}
        ELSE {[i \in 1..Len(s) |-> AsStorageCredential(s[i])] : s \in rows}

\* The credential keys get_table_config copies, and the config key each becomes.
ConfigKeyOf(k) ==
    CASE k = "region" -> "client.region"
      [] k = "access-key-id" -> "s3.access-key-id"
      [] k = "secret-access-key" -> "s3.secret-access-key"
      [] k = "session-token" -> "s3.session-token"
      [] k = "use-instance-credentials" -> "s3.use-instance-credentials"
      [] OTHER -> "dropped"

CopiedKeys(config) ==
    {k \in DOMAIN config :
        \/ k \in {"region", "access-key-id", "secret-access-key", "session-token"}
        \/ k = "use-instance-credentials" /\ config[k] = "true"}

TranslateConfig(config) ==
    LET keys == CopiedKeys(config)
    IN  [ck \in {ConfigKeyOf(k) : k \in keys} |->
            config[CHOOSE k \in keys : ConfigKeyOf(k) = ck]]

DefaultTableConfig ==
    [ck \in {"client.region", "s3.use-instance-credentials"} |->
        IF ck = "client.region" THEN "us-east-1" ELSE "true"]

\* TableService.get_table_config: the first global row, in the order the store
\* returns them (no ORDER BY), whose warehouse is a prefix of the location.
TableConfigs(d, tid) ==
    LET t == TableById(d, tid)
        matching == CredentialsForLocation(d, t.location)
    IN  IF t.id = NULL THEN {<<>>}
        ELSE IF matching = {} THEN {DefaultTableConfig}
        ELSE {TranslateConfig(r.config) : r \in matching}

\* CredentialService.upsert_credentials
UpsertCredentials(d, prefix, warehouse, config, table_id) ==
    LET same(r) == r.prefix = prefix /\ r.warehouse = warehouse /\ r.table_id = table_id
    IN  IF \E r \in d.storage_credentials : same(r)
        THEN LET hit == CHOOSE r \in d.storage_credentials : same(r)
             IN  [d EXCEPT !.storage_credentials =
                     (@ \ {hit}) \cup {[hit EXCEPT !.config = config]}]
        ELSE [d EXCEPT !.storage_credentials = @ \cup
                 {[id |-> d.next_cred_id, prefix |-> prefix, warehouse |-> warehouse,
                   config |-> config, table_id |-> table_id]},
                       !.next_cred_id = @ + 1]

\* ----------------------------------------------------------------- metadata

RECURSIVE AssignFieldIds(_, _)
\* The partition-field loop of create_table, add-spec and build_table_response:
\* a given field-id raises the running last id when larger, a missing one takes
\* the next id.  Returns the completed ids and the last id.
AssignFieldIds(fields, last) ==
    IF fields = <<>> THEN [ids |-> <<>>, last |-> last]
    ELSE LET id == IF fields[1] = NULL THEN last + 1 ELSE fields[1]
             nl == IF fields[1] = NULL THEN last + 1
                   ELSE IF fields[1] > last THEN fields[1] ELSE last
             rest == AssignFieldIds(Tail(fields), nl)
         IN  [ids |-> <<id>> \o rest.ids, last |-> rest.last]

\* build_table_response repairs a missing field-id by counting up from the
\* table's last_partition_id, without comparing against given ids.
RECURSIVE RepairFieldIds(_, _)
RepairFieldIds(fields, last) ==
    IF fields = <<>> THEN <<>>
    ELSE IF fields[1] = NULL
         THEN <<last + 1>> \o RepairFieldIds(Tail(fields), last + 1)
         ELSE <<fields[1]>> \o RepairFieldIds(Tail(fields), last)

\* TableMetadata.parse_obj: format_version: int = Field(..., ge=1, le=2)
ParseOK(format_version) == format_version >= 1 /\ format_version <= 2

SnapshotDoc(r) ==
    [snapshot_id |-> r.snapshot_id, parent_snapshot_id |-> r.parent_snapshot_id,
     sequence_number |-> r.sequence_number]

RefDoc(r) == [name |-> r.name, snapshot_id |-> r.snapshot_id, type |-> r.type]

\* The fields both assemblers copy from the header and the child rows.
MetadataDoc(t, format_version, table_uuid, schemas, specs, snaps, d) ==
    [ format_version        |-> format_version,
      table_uuid            |-> table_uuid,
      location              |-> t.location,
      last_updated_ms       |-> t.last_updated_ms,
      properties            |-> t.properties,
      schemas               |-> schemas,
      current_schema_id     |-> t.current_schema_id,
      last_column_id        |-> t.last_column_id,
      partition_specs       |-> specs,
      default_spec_id       |-> t.default_spec_id,
      last_partition_id     |-> t.last_partition_id,
      sort_orders           |-> {[order_id |-> r.order_id] : r \in Rows(d, "sort_orders", t.id)},
      default_sort_order_id |-> t.default_sort_order_id,
      snapshots             |-> {SnapshotDoc(r) : r \in snaps},
      refs                  |-> {RefDoc(r) : r \in Rows(d, "snapshot_refs", t.id)},
      current_snapshot_id   |-> t.current_snapshot_id,
      last_sequence_number  |-> t.last_sequence_number ]

\* TableService.build_table_response: the metadata document of a load.  basic is
\* what get_table_basic_info read; snapshots is the filter parameter.
BuildTableResponse(d, tid, basic, snapshots) ==
    LET t == TableById(d, tid)
        schemas == {[schema_id |-> IF r.json_id = NULL THEN r.schema_id ELSE r.json_id,
                     fields |-> r.fields] : r \in Rows(d, "schemas", tid)}
        specs == {[spec_id |-> IF r.json_id = NULL THEN r.spec_id ELSE r.json_id,
                   field_ids |-> RepairFieldIds(r.field_ids, t.last_partition_id)]
                  : r \in Rows(d, "partition_specs", tid)}
        referenced == {r.snapshot_id : r \in Rows(d, "snapshot_refs", tid)}
        snaps == IF snapshots = "refs"
                 THEN {r \in Rows(d, "snapshots", tid) : r.snapshot_id \in referenced}
                 ELSE Rows(d, "snapshots", tid)
    IN  MetadataDoc(t, basic.format_version, basic.table_uuid, schemas, specs, snaps, d)

\* TableService._build_table_metadata: the metadata document of a commit response.
\* A stored "schema-id"/"spec-id" of null is kept (the key is present); a missing
\* field-id becomes last_partition_id + 1.
BuildTableMetadata(d, tid) ==
    LET t == TableById(d, tid)
        schemas == {[schema_id |-> r.json_id, fields |-> r.fields]
                    : r \in Rows(d, "schemas", tid)}
        specs == {[spec_id |-> r.json_id,
                   field_ids |-> [i \in 1..Len(r.field_ids) |->
                       IF r.field_ids[i] = NULL THEN t.last_partition_id + 1
                       ELSE r.field_ids[i]]]
                  : r \in Rows(d, "partition_specs", tid)}
    IN  MetadataDoc(t, t.format_version, t.table_uuid, schemas, specs,
                    Rows(d, "snapshots", tid), d)

\* ON DELETE CASCADE of every child table (the schema's foreign keys).
CascadeDelete(d, tid) ==
    [d EXCEPT !.tables = {t \in @ : t.id # tid},
              !.schemas = {r \in @ : r.table_id # tid},
              !.partition_specs = {r \in @ : r.table_id # tid},
              !.sort_orders = {r \in @ : r.table_id # tid},
              !.snapshots = {r \in @ : r.table_id # tid},
              !.snapshot_refs = {r \in @ : r.table_id # tid},
              !.table_statistics = {r \in @ : r.table_id # tid},
              !.partition_statistics = {r \in @ : r.table_id # tid},
              !.metadata_log = {r \in @ : r.table_id # tid}]

\* The row create_table inserts into tables, and its three child rows.
InsertNewTable(d, ns_id, levels, req, ms) ==
    LET tid == d.next_table_id
        location == IF req.location = <<>>
                    THEN DefaultWarehouse \o <<JoinDot(levels), req.name>>
                    ELSE req.location
        last_column_id == Max(req.schema.fields \cup {0})
        assigned == IF req.partition_spec.given
                    THEN AssignFieldIds(req.partition_spec.fields, 0)
                    ELSE [ids |-> <<>>, last |-> 0]
        spec_json_id == IF req.partition_spec.given THEN req.partition_spec.spec_id ELSE 0
        order_id == IF req.write_order = NULL THEN 0 ELSE req.write_order
        header == [ id |-> tid, namespace_id |-> ns_id, name |-> req.name,
                    table_uuid |-> d.next_uuid, location |-> location,
                    format_version |-> 2, last_updated_ms |-> ms,
                    last_sequence_number |-> 0, last_column_id |-> last_column_id,
                    current_schema_id |-> 0, default_spec_id |-> 0,
                    last_partition_id |-> assigned.last,
                    default_sort_order_id |-> order_id, properties |-> req.properties,
                    current_snapshot_id |-> NULL, row_lineage |-> FALSE ]
    IN  [d EXCEPT !.tables = @ \cup {header},
                  !.schemas = @ \cup {[table_id |-> tid, schema_id |-> 0,
                                       json_id |-> req.schema.schema_id,
                                       fields |-> req.schema.fields]},
                  !.partition_specs = @ \cup {[table_id |-> tid, spec_id |-> 0,
                                               json_id |-> spec_json_id,
                                               field_ids |-> assigned.ids]},
                  !.sort_orders = @ \cup {[table_id |-> tid, order_id |-> order_id]},
                  !.next_table_id = @ + 1,
                  !.next_uuid = @ + 1]

\* The inline-credentials step of create_table.
InsertInlineCredentials(d, levels, tid, req) ==
    LET location == TableById(d, tid).location
        warehouse == SubSeq(location, 1, 1)
    IN  IF req.credentials # <<>> /\ CredentialsForLocation(d, location) = {}
        THEN UpsertCredentials(d, levels[1], warehouse, req.credentials, NULL)
        ELSE d

\* The TableMetadata create_table returns: assembled from the request, not re-read.
CreatedMetadata(d, tid, req) ==
    LET t == TableById(d, tid)
    IN  [ format_version        |-> 2,
          table_uuid            |-> t.table_uuid,
          location              |-> t.location,
          last_updated_ms       |-> t.last_updated_ms,
          properties            |-> req.properties,
          schemas               |-> {[schema_id |-> req.schema.schema_id,
                                      fields |-> req.schema.fields]},
          current_schema_id     |-> 0,
          last_column_id        |-> t.last_column_id,
          partition_specs       |-> {IF req.partition_spec.given
                                     THEN [spec_id |-> req.partition_spec.spec_id,
                                           field_ids |-> req.partition_spec.fields]
                                     ELSE [spec_id |-> 0, field_ids |-> <<>>]},
          default_spec_id       |-> 0,
          last_partition_id     |-> t.last_partition_id,
          sort_orders           |-> {[order_id |-> t.default_sort_order_id]},
          default_sort_order_id |-> t.default_sort_order_id,
          snapshots             |-> {},
          refs                  |-> {},
          current_snapshot_id   |-> NULL,
          last_sequence_number  |-> 0 ]

\* ---------------------------------------------------------------- actions

Init ==
    /\ db = EmptyDb
    /\ cache = <<>>
    /\ now = 0
    /\ proc = [c \in Clients |-> Idle]
    /\ resp = [c \in Clients |-> NoResp]
    /\ ops = [c \in Clients |-> 0]

\* The wall clock advances between two statements.
Tick ==
    /\ now < MaxClock
    /\ now' = now + 1
    /\ UNCHANGED <<db, cache, proc, resp, ops>>

\* NamespaceService.create_namespace
CreateNamespace(c, levels) ==
    /\ proc[c].pc = "idle"
    /\ IF NamespaceId(db, levels) # NULL
       THEN /\ resp' = [resp EXCEPT ![c] = [op |-> "create_namespace", status |-> 409]]
            /\ UNCHANGED db
       ELSE /\ db' = [db EXCEPT !.namespaces = @ \cup {[id |-> db.next_ns_id, levels |-> levels,
                                                        properties |-> <<>>]},
                               !.next_ns_id = @ + 1]
            /\ resp' = [resp EXCEPT ![c] = [op |-> "create_namespace", status |-> 200]]
    /\ UNCHANGED <<cache, now, proc, ops>>

\* TableService._table_metadata_cache[cache_key] = metadata
CachePut(ch, key, envelope) ==
    [k \in DOMAIN ch \cup {key} |-> IF k = key THEN envelope ELSE ch[k]]

Done(c, r) == resp' = [resp EXCEPT ![c] = r]

\* POST /v1/{prefix}/namespaces/{namespace}/tables: TableService.create_table
CreateTable(c, levels, req) ==
    /\ proc[c].pc = "idle"
    /\ LET ns_id == NamespaceId(db, levels)
           tid == db.next_table_id
           inserted == InsertInlineCredentials(
                           InsertNewTable(db, ns_id, levels, req, now), levels, tid, req)
       IN  IF ns_id = NULL
           THEN Done(c, [op |-> "create", status |-> 404]) /\ UNCHANGED <<db, ops>>
           ELSE IF TableRow(db, ns_id, req.name).id # NULL
           THEN Done(c, [op |-> "create", status |-> 409]) /\ UNCHANGED <<db, ops>>
           ELSE /\ ops[c] < MaxOps
                /\ db.next_table_id <= MaxTables
                /\ db' = inserted
                /\ ops' = [ops EXCEPT ![c] = @ + 1]
                /\ \E config \in TableConfigs(inserted, tid) :
                      Done(c, [op |-> "create", status |-> 200, table_id |-> tid,
                               etag |-> ETag(db.next_uuid, now),
                               metadata |-> CreatedMetadata(inserted, tid, req),
                               config |-> config])
    /\ UNCHANGED <<cache, now, proc>>

\* An UPDATE that takes the table out of its namespace and keeps its rows.
DetachTable(d, tid) == SetHeader(d, tid, "namespace_id", NULL)

\* DELETE FROM tables WHERE id = $1
DeleteTable(d, tid) == CascadeDelete(d, tid)

\* DELETE /v1/{prefix}/namespaces/{namespace}/tables/{table}: TableService.drop_table.
\* The outcome records the identifier and the table as it was before the call.
DropTable(c, levels, name) ==
    /\ proc[c].pc = "idle"
    /\ LET ns_id == NamespaceId(db, levels)
           t == TableRow(db, ns_id, name)
       IN  IF ns_id = NULL \/ t.id = NULL
           THEN Done(c, [op |-> "drop", status |-> 404]) /\ UNCHANGED <<db, ops>>
           ELSE /\ ops[c] < MaxOps
                /\ db' = DeleteTable(db, t.id)
                /\ ops' = [ops EXCEPT ![c] = @ + 1]
                /\ Done(c, [op |-> "drop", status |-> 204, table_id |-> t.id,
                            namespace |-> levels, name |-> name,
                            pre |-> TableState(db, t.id)])
    /\ UNCHANGED <<cache, now, proc>>

\* NamespaceService.namespace_exists
NamespaceExists(d, levels) == \E n \in d.namespaces : n.levels = levels

\* TableService.table_exists: tables JOIN namespaces
TableExists(d, levels, name) ==
    \E t \in d.tables, n \in d.namespaces :
        t.namespace_id = n.id /\ n.levels = levels /\ t.name = name

\* The rename_table route's "except ValueError": the error it answers with is
\* chosen by the words found in the lower-cased message.
RenameError(message) ==
    LET m == Lower(message)
    IN  IF Contains(m, "not found") /\ Contains(m, "namespace")
        THEN [status |-> 404, type |-> "NoSuchNamespaceException"]
        ELSE IF Contains(m, "not found") /\ Contains(m, "table")
        THEN [status |-> 404, type |-> "NoSuchTableException"]
        ELSE IF Contains(m, "already exists")
        THEN [status |-> 409, type |-> "AlreadyExistsException"]
        ELSE [status |-> 400, type |-> "BadRequestException"]

\* A rename that rewrites every row with the source name, whatever its namespace.
RenameByName(d, src_ns, src_name, dst_ns, dst_name) ==
    [d EXCEPT !.tables =
        {IF t.name = src_name
         THEN [t EXCEPT !.namespace_id = dst_ns, !.name = dst_name] ELSE t : t \in @}]

\* UPDATE tables SET namespace_id = $1, name = $2 WHERE namespace_id = $3 AND name = $4
RenameRow(d, src_ns, src_name, dst_ns, dst_name) ==
    [d EXCEPT !.tables =
        {IF t.namespace_id = src_ns /\ t.name = src_name
         THEN [t EXCEPT !.namespace_id = dst_ns, !.name = dst_name] ELSE t : t \in @}]

\* POST /v1/{prefix}/tables/rename: TableService.rename_table and its route.
\* The outcome records the request and the store the call started from.
RenameTable(c, src_levels, src_name, dst_levels, dst_name) ==
    /\ proc[c].pc = "idle"
    /\ LET src_ns == NamespaceId(db, src_levels)
           dst_ns == NamespaceId(db, dst_levels)
           t == TableRow(db, src_ns, src_name)
           request == [op |-> "rename", pre_db |-> db,
                       source |-> [namespace |-> src_levels, name |-> src_name],
                       destination |-> [namespace |-> dst_levels, name |-> dst_name]]
           raise(message) ==
               /\ Done(c, request @@ [message |-> message] @@ RenameError(message))
               /\ UNCHANGED <<db, ops>>
       IN  IF ~NamespaceExists(db, src_levels)
           THEN raise("Source namespace not found: " \o Repr(src_levels))
           ELSE IF ~NamespaceExists(db, dst_levels)
           THEN raise("Destination namespace not found: " \o Repr(dst_levels))
           ELSE IF ~TableExists(db, src_levels, src_name)
           THEN raise("Source table not found: " \o Qualified(src_levels, src_name))
           ELSE IF TableExists(db, dst_levels, dst_name)
           THEN raise("Destination table already exists: "
                      \o Qualified(dst_levels, dst_name))
           ELSE /\ ops[c] < MaxOps
                /\ db' = RenameRow(db, src_ns, src_name, dst_ns, dst_name)
                /\ ops' = [ops EXCEPT ![c] = @ + 1]
                /\ Done(c, request @@ [status |-> 204, table_id |-> t.id])
    /\ UNCHANGED <<cache, now, proc>>

\* The drop_namespace route's "except ValueError".
DropNamespaceError(message) ==
    LET m == Lower(message)
    IN  IF Contains(m, "not found")
        THEN [status |-> 404, type |-> "NoSuchNamespaceException"]
        ELSE IF Contains(m, "not empty")
        THEN [status |-> 409, type |-> "NamespaceNotEmptyException"]
        ELSE [status |-> 400, type |-> "BadRequestException"]

\* drop_namespace's has_children query
HasChildren(d, levels) ==
    LET ns_id == NamespaceId(d, levels)
    IN  \/ \E t \in d.tables : t.namespace_id = ns_id
        \/ \E v \in d.views : v.namespace_id = ns_id

\* DELETE FROM namespaces WHERE levels = $1
DeleteNamespace(d, levels) == [d EXCEPT !.namespaces = {n \in @ : n.levels # levels}]

\* DELETE /v1/{prefix}/namespaces/{namespace}: NamespaceService.drop_namespace
\* and its route.
DropNamespace(c, levels) ==
    /\ proc[c].pc = "idle"
    /\ LET request == [op |-> "drop_namespace", pre_db |-> db, namespace |-> levels]
           raise(message) ==
               /\ Done(c, request @@ [message |-> message] @@ DropNamespaceError(message))
               /\ UNCHANGED <<db, ops>>
       IN  IF ~NamespaceExists(db, levels)
           THEN raise("Namespace not found: " \o Repr(levels))
           ELSE IF HasChildren(db, levels)
           THEN raise("Namespace is not empty: " \o Repr(levels))
           ELSE /\ ops[c] < MaxOps
                /\ db' = DeleteNamespace(db, levels)
                /\ ops' = [ops EXCEPT ![c] = @ + 1]
                /\ Done(c, request @@ [status |-> 204])
    /\ UNCHANGED <<cache, now, proc>>

\* TableService.get_table_basic_info: (table_id, etag, basic metadata or None)
GetTableBasicInfo(d, levels, name, if_none_match) ==
    LET t == TableRow(d, NamespaceId(d, levels), name)
        etag == ETag(t.table_uuid, t.last_updated_ms)
    IN  [ table_id |-> t.id, etag |-> etag,
          modified |-> ~(if_none_match # <<>> /\ if_none_match = etag),
          basic |-> [format_version |-> t.format_version, table_uuid |-> t.table_uuid] ]

\* The body of the conditional-load branch: the cached envelope with config and
\* storage-credentials overwritten.
RefreshCached(envelope, config, credentials) ==
    [envelope EXCEPT !.config = config,
                     !.storage_credentials =
                         IF credentials # <<>> THEN PyList(credentials) ELSE PyNone]

\* GET /v1/{prefix}/namespaces/{namespace}/tables/{table}: the load_table route.
\* The outcome records the request (if_none_match, snapshots), what the cache
\* held under the table's key when the request arrived (hit, before) and the
\* config and credentials the request resolved.
LoadTable(c, levels, name, snapshots, if_none_match) ==
    /\ proc[c].pc = "idle"
    /\ LET ns_id == NamespaceId(db, levels)
           found == ns_id # NULL /\ TableRow(db, ns_id, name).id # NULL
           info == GetTableBasicInfo(db, levels, name, if_none_match)
           key == CacheKey(levels, name)
           hit == key \in DOMAIN cache
           request(config, credentials) ==
               [op |-> "load", table_id |-> info.table_id, etag |-> info.etag,
                if_none_match |-> if_none_match, snapshots |-> snapshots, key |-> key,
                hit |-> hit, before |-> IF hit THEN cache[key] ELSE PyNone,
                config |-> config, credentials |-> credentials]
       IN  IF ~found
           THEN Done(c, [op |-> "load", status |-> 404]) /\ UNCHANGED cache
           ELSE \E config \in TableConfigs(db, info.table_id),
                   credentials \in StorageCredentials(db, info.table_id) :
                IF ~info.modified
                THEN IF hit
                     THEN LET body == RefreshCached(cache[key], config, credentials)
                          IN  /\ cache' = CachePut(cache, key, body)
                              /\ Done(c, [status |-> 200, cached |-> TRUE, body |-> body]
                                         @@ request(config, credentials))
                     ELSE /\ Done(c, [status |-> 304, cached |-> FALSE]
                                     @@ request(config, credentials))
                          /\ UNCHANGED cache
                ELSE IF ~ParseOK(info.basic.format_version)
                THEN /\ Done(c, [status |-> 500, cached |-> FALSE]
                                @@ request(config, credentials))
                     /\ UNCHANGED cache
                ELSE LET body == [ metadata_location |->
                                       [location |-> TableById(db, info.table_id).location,
                                        file |-> "current"],
                                   metadata |-> BuildTableResponse(db, info.table_id,
                                                                   info.basic, snapshots),
                                   config |-> config,
                                   storage_credentials |-> PyList(credentials) ]
                     IN  /\ cache' = CachePut(cache, key, body)
                         /\ Done(c, [status |-> 200, cached |-> FALSE, body |-> body]
                                    @@ request(config, credentials))
    /\ UNCHANGED <<db, now, proc, ops>>

\* POST /v1/{prefix}/credentials: the create_credentials route
CreateCredentials(c, req) ==
    /\ proc[c].pc = "idle"
    /\ LET existing == \E r \in db.storage_credentials :
                          r.prefix = req.prefix /\ r.warehouse = req.warehouse
                          /\ r.table_id = req.table_id
       IN  IF existing /\ ~req.overwrite
           THEN Done(c, [op |-> "credentials", status |-> 409]) /\ UNCHANGED <<db, ops>>
           ELSE /\ ops[c] < MaxOps
                /\ db' = UpsertCredentials(db, req.prefix, req.warehouse, req.config,
                                           req.table_id)
                /\ ops' = [ops EXCEPT ![c] = @ + 1]
                /\ Done(c, [op |-> "credentials", status |-> 201])
    /\ UNCHANGED <<cache, now, proc>>

\* ------------------------------------------------------------ commit engine

\* TableService._validate_requirement.  The header fields are those of table_record,
\* the row the caller read before it opened its transaction; only the ref lookup
\* queries the store.
ValidateRequirement(d, tid, rec, r) ==
    CASE r.type = "assert-create" -> FALSE
      [] r.type = "assert-table-uuid" -> rec.table_uuid = r.uuid
      [] r.type = "assert-ref-snapshot-id" ->
            LET rows == {x \in Rows(d, "snapshot_refs", tid) : x.name = r.ref}
            IN  IF r.snapshot_id = NULL THEN rows = {}
                ELSE rows # {} /\ \A x \in rows : x.snapshot_id = r.snapshot_id
      [] r.type = "assert-last-assigned-field-id" ->
            rec.last_column_id = r.last_assigned_field_id
      [] r.type = "assert-current-schema-id" ->
            rec.current_schema_id = r.current_schema_id
      [] r.type = "assert-last-assigned-partition-id" ->
            rec.last_partition_id = r.last_assigned_partition_id
      [] r.type = "assert-default-spec-id" ->
            rec.default_spec_id = r.default_spec_id
      [] r.type = "assert-default-sort-order-id" ->
            rec.default_sort_order_id = r.default_sort_order_id
      [] OTHER -> FALSE

\* A loop that checks every requirement and reports the last one that failed.
LastFailing(d, tid, rec, reqs) ==
    LET failing == {i \in 1..Len(reqs) : ~ValidateRequirement(d, tid, rec, reqs[i])}
    IN  IF failing = {} THEN 0 ELSE CHOOSE i \in failing : \A j \in failing : i >= j

\* for requirement in request.requirements: ... raise ValueError(...)
\* The index of the requirement the loop raises at, 0 when it runs through.
FirstFailing(d, tid, rec, reqs) ==
    LET failing == {i \in 1..Len(reqs) : ~ValidateRequirement(d, tid, rec, reqs[i])}
    IN  IF failing = {} THEN 0 ELSE CHOOSE i \in failing : \A j \in failing : i <= j

\* The primary key / unique constraint of a child table rejects a second row
\* with the same key (an error from the store).
KeyTaken(d, child, tid, col, v) == \E r \in Rows(d, child, tid) : r[col] = v

Ok(d) == [ok |-> TRUE, db |-> d]
Raise(d) == [ok |-> FALSE, db |-> d]

\* json properties of table_record merged with updates / without removals
MergeProps(props, updates) ==
    [k \in DOMAIN props \cup DOMAIN updates |->
        IF k \in DOMAIN updates THEN updates[k] ELSE props[k]]

DropProps(props, removals) == [k \in DOMAIN props \ removals |-> props[k]]

\* INSERT ... or UPDATE ... WHERE table_id = $1 AND <col> = $2 after a SELECT
UpsertRow(d, child, tid, col, row) ==
    [d EXCEPT ![child] = {r \in @ : ~(r.table_id = tid /\ r[col] = row[col])} \cup {row}]

DeleteRows(d, child, tid, col, vals) ==
    [d EXCEPT ![child] = {r \in @ : ~(r.table_id = tid /\ r[col] \in vals)}]

\* TableService._apply_update: the store after the update's statements, and
\* whether the update raised.
ApplyUpdate(d, tid, rec, u) ==
    CASE u.action = "assign-uuid" -> Ok(SetHeader(d, tid, "table_uuid", u.uuid))
      [] u.action = "upgrade-format-version" ->
            Ok(SetHeader(d, tid, "format_version", u.format_version))
      [] u.action = "add-schema" ->
            LET max_id == SqlMax({r.schema_id : r \in Rows(d, "schemas", tid)})
                schema_id == IF u.schema.schema_id = NULL THEN max_id + 1
                             ELSE u.schema.schema_id
                last_column_id == Max(u.schema.fields \cup {rec.last_column_id})
            IN  IF KeyTaken(d, "schemas", tid, "schema_id", schema_id) THEN Raise(d)
                ELSE Ok(SetHeader(
                        [d EXCEPT !.schemas = @ \cup
                            {[table_id |-> tid, schema_id |-> schema_id,
                              json_id |-> schema_id, fields |-> u.schema.fields]}],
                        tid, "last_column_id", last_column_id))
      [] u.action = "set-current-schema" ->
            LET schema_id == IF u.schema_id = -1
                             THEN SqlMax({r.schema_id : r \in Rows(d, "schemas", tid)})
                             ELSE u.schema_id
            IN  Ok(SetHeader(d, tid, "current_schema_id", schema_id))
      [] u.action = "add-spec" ->
            LET max_id == SqlMax({r.spec_id : r \in Rows(d, "partition_specs", tid)})
                spec_id == IF u.spec.spec_id = NULL THEN max_id + 1 ELSE u.spec.spec_id
                assigned == AssignFieldIds(u.spec.fields, rec.last_partition_id)
            IN  IF KeyTaken(d, "partition_specs", tid, "spec_id", spec_id) THEN Raise(d)
                ELSE Ok(SetHeader(
                        [d EXCEPT !.partition_specs = @ \cup
                            {[table_id |-> tid, spec_id |-> spec_id,
                              json_id |-> spec_id, field_ids |-> assigned.ids]}],
                        tid, "last_partition_id", assigned.last))
      [] u.action = "set-default-spec" ->
            LET spec_id == IF u.spec_id = -1
                           THEN SqlMax({r.spec_id : r \in Rows(d, "partition_specs", tid)})
                           ELSE u.spec_id
            IN  Ok(SetHeader(d, tid, "default_spec_id", spec_id))
      [] u.action = "add-sort-order" ->
            IF KeyTaken(d, "sort_orders", tid, "order_id", u.order_id) THEN Raise(d)
            ELSE Ok([d EXCEPT !.sort_orders = @ \cup
                        {[table_id |-> tid, order_id |-> u.order_id]}])
      [] u.action = "set-default-sort-order" ->
            LET order_id == IF u.sort_order_id = -1
                            THEN SqlMax({r.order_id : r \in Rows(d, "sort_orders", tid)})
                            ELSE u.sort_order_id
            IN  Ok(SetHeader(d, tid, "default_sort_order_id", order_id))
      [] u.action = "add-snapshot" ->
            IF KeyTaken(d, "snapshots", tid, "snapshot_id", u.snapshot.snapshot_id)
            THEN Raise(d)
            ELSE LET t == TableById(d, tid)
                     inserted == [d EXCEPT !.snapshots = @ \cup
                                     {[table_id |-> tid,
                                       snapshot_id |-> u.snapshot.snapshot_id,
                                       parent_snapshot_id |-> u.snapshot.parent_snapshot_id,
                                       sequence_number |-> u.snapshot.sequence_number]}]
                 IN  Ok(IF t.id = NULL THEN inserted
                        ELSE SetHeader(
                               SetHeader(inserted, tid, "current_snapshot_id",
                                         u.snapshot.snapshot_id),
                               tid, "last_sequence_number",
                               Greatest(t.last_sequence_number, u.snapshot.sequence_number)))
      [] u.action = "set-snapshot-ref" ->
            Ok(UpsertRow(d, "snapshot_refs", tid, "name",
                         [table_id |-> tid, name |-> u.ref_name,
                          snapshot_id |-> u.snapshot_id, type |-> u.type]))
      [] u.action = "remove-snapshots" ->
            Ok(DeleteRows(d, "snapshots", tid, "snapshot_id", u.snapshot_ids))
      [] u.action = "remove-snapshot-ref" ->
            Ok(DeleteRows(d, "snapshot_refs", tid, "name", {u.ref_name}))
      [] u.action = "set-location" -> Ok(SetHeader(d, tid, "location", u.location))
      [] u.action = "set-properties" ->
            Ok(SetHeader(d, tid, "properties", MergeProps(rec.properties, u.updates)))
      [] u.action = "remove-properties" ->
            Ok(SetHeader(d, tid, "properties", DropProps(rec.properties, u.removals)))
      [] u.action = "set-statistics" ->
            Ok(UpsertRow(d, "table_statistics", tid, "snapshot_id",
                         [table_id |-> tid, snapshot_id |-> u.snapshot_id,
                          statistics_path |-> u.statistics_path]))
      [] u.action = "set-partition-statistics" ->
            Ok(UpsertRow(d, "partition_statistics", tid, "snapshot_id",
                         [table_id |-> tid, snapshot_id |-> u.snapshot_id,
                          statistics_path |-> u.statistics_path]))
      [] u.action = "remove-statistics" ->
            Ok(DeleteRows(d, "table_statistics", tid, "snapshot_id", {u.snapshot_id}))
      [] u.action = "remove-partition-statistics" ->
            Ok(DeleteRows(d, "partition_statistics", tid, "snapshot_id", {u.snapshot_id}))
      [] u.action = "remove-partition-specs" ->
            Ok(DeleteRows(d, "partition_specs", tid, "spec_id", u.spec_ids))
      [] u.action = "remove-schemas" ->
            Ok(DeleteRows(d, "schemas", tid, "schema_id", u.schema_ids))
      [] u.action = "enable-row-lineage" -> Ok(SetHeader(d, tid, "row_lineage", TRUE))
      [] OTHER -> Raise(d)

\* ---------------------------------------------------- commit engine: steps

\* update_table from its first line to the end of the requirement loop.  The
\* header read here (table_record) stays in the caller's hands until the reload
\* after the update loop.
UpdateTableBegin(c, levels, name, reqs) ==
    /\ proc[c].pc = "idle"
    /\ LET ns_id == NamespaceId(db, levels)
           t == TableRow(db, ns_id, name)
           failing == FirstFailing(db, t.id, t, reqs)
       IN  IF ns_id = NULL
           THEN Done(c, [op |-> "commit", ok |-> FALSE, error |-> "Namespace not found"])
                /\ UNCHANGED <<proc, ops>>
           ELSE IF t.id = NULL
           THEN Done(c, [op |-> "commit", ok |-> FALSE, error |-> "Table not found"])
                /\ UNCHANGED <<proc, ops>>
           ELSE IF failing # 0
           THEN Done(c, [op |-> "commit", ok |-> FALSE,
                         error |-> "Table requirement not met",
                         type |-> reqs[failing].type, index |-> failing,
                         requirements |-> reqs, table_id |-> t.id,
                         pre |-> TableState(db, t.id), pre_db |-> db, applied |-> 0])
                /\ UNCHANGED <<proc, ops>>
           ELSE /\ ops[c] < MaxOps
                /\ ops' = [ops EXCEPT ![c] = @ + 1]
                /\ proc' = [proc EXCEPT ![c] =
                               [pc |-> "updates", op |-> "commit", namespace_id |-> ns_id,
                                name |-> name, table_id |-> t.id, table_record |-> t,
                                location |-> t.location, requirements |-> reqs,
                                pre |-> TableState(db, t.id), pre_db |-> db,
                                writes_from |-> PyNone, applied |-> 0,
                                updates |-> <<>>]]
                /\ Done(c, NoResp)
    /\ UNCHANGED <<db, cache, now>>

\* One iteration of "for update in ...updates": _apply_update, and in
\* commit_transaction the reload of table_record that follows it.  An update
\* that raises ends the call; what its predecessors wrote stays written.
\* writes_from remembers the store the call's first write was applied to,
\* updates the updates applied so far, in order.
ApplyUpdateStep(c, u) ==
    /\ proc[c].pc = "updates"
    /\ ops[c] < MaxOps
    /\ LET p == proc[c]
           r == ApplyUpdate(db, p.table_id, p.table_record, u)
       IN  /\ db' = r.db
           /\ ops' = [ops EXCEPT ![c] = @ + 1]
           /\ IF r.ok
              THEN /\ proc' = [proc EXCEPT ![c].applied = @ + 1,
                                           ![c].updates = Append(@, u),
                                           ![c].writes_from =
                                               IF @ = PyNone THEN db ELSE @,
                                           ![c].table_record =
                                               IF p.op = "transaction"
                                               THEN TableById(r.db, p.table_id) ELSE @]
                   /\ UNCHANGED resp
              ELSE /\ proc' = [proc EXCEPT ![c] = Idle]
                   /\ Done(c, [op |-> p.op, ok |-> FALSE, error |-> "update raised",
                               action |-> u.action, table_id |-> p.table_id,
                               pre |-> p.pre, pre_db |-> p.pre_db,
                               applied |-> p.applied])
    /\ UNCHANGED <<cache, now>>

\* f"{location}/metadata/{table_record['format_version']:05d}-{uuid4()}.metadata.json"
MetadataLocation(location, format_version, file_uuid) ==
    [location |-> location, version |-> format_version, uuid |-> file_uuid]

\* update_table after the update loop: reload, metadata_log insert, response.
UpdateTableFinish(c) ==
    /\ proc[c].pc = "updates"
    /\ proc[c].op = "commit"
    /\ LET p == proc[c]
           t == TableRow(db, p.namespace_id, p.name)
           metadata_location == MetadataLocation(p.location, t.format_version, db.next_uuid)
           logged == [db EXCEPT !.metadata_log = @ \cup
                          {[table_id |-> p.table_id, metadata_file |-> metadata_location,
                            timestamp_ms |-> now]},
                                !.next_uuid = @ + 1]
       IN  IF t.id = NULL
           THEN /\ Done(c, [op |-> "commit", ok |-> FALSE, error |-> "reload failed",
                            table_id |-> p.table_id, pre |-> p.pre, pre_db |-> p.pre_db,
                            applied |-> p.applied])
                /\ UNCHANGED db
           ELSE /\ db' = logged
                /\ IF ~ParseOK(t.format_version)
                   THEN Done(c, [op |-> "commit", ok |-> FALSE,
                                 error |-> "metadata validation",
                                 table_id |-> p.table_id, pre |-> p.pre,
                                 pre_db |-> p.pre_db, applied |-> p.applied])
                   ELSE Done(c, [op |-> "commit", ok |-> TRUE, table_id |-> p.table_id,
                                 metadata_location |-> metadata_location,
                                 metadata |-> BuildTableMetadata(logged, p.table_id),
                                 pre |-> p.pre, pre_db |-> p.pre_db,
                                 requirements |-> p.requirements,
                                 updates |-> p.updates,
                                 writes_from |->
                                     IF p.writes_from = PyNone THEN db ELSE p.writes_from,
                                 applied |-> p.applied])
    /\ proc' = [proc EXCEPT ![c] = Idle]
    /\ UNCHANGED <<cache, now, ops>>

\* commit_transaction: INSERT INTO transactions (transaction_id, status)
CommitTransactionBegin(c) ==
    /\ proc[c].pc = "idle"
    /\ ops[c] < MaxOps
    /\ ops' = [ops EXCEPT ![c] = @ + 1]
    /\ db' = [db EXCEPT !.transactions = @ \cup
                  {[transaction_id |-> db.next_txn_id, status |-> "committing"]},
                        !.next_txn_id = @ + 1]
    /\ proc' = [proc EXCEPT ![c] =
                   [pc |-> "changes", op |-> "transaction",
                    transaction_id |-> db.next_txn_id, pre_db |-> db, changes |-> 0]]
    /\ Done(c, NoResp)
    /\ UNCHANGED <<cache, now>>

\* commit_transaction: the head of one iteration of "for table_change in
\* request.table_changes", up to the end of its requirement loop.  identifier is
\* <<>> when the change carries none.
TableChangeBegin(c, identifier, reqs) ==
    /\ proc[c].pc \in {"changes", "updates"}
    /\ proc[c].op = "transaction"
    /\ LET p == proc[c]
           ns_id == NamespaceId(db, identifier.namespace)
           t == TableRow(db, ns_id, identifier.name)
           failing == FirstFailing(db, t.id, t, reqs)
           abort(error) ==
               /\ proc' = [proc EXCEPT ![c] = Idle]
               /\ UNCHANGED ops
               /\ Done(c, [op |-> "transaction", ok |-> FALSE, error |-> error,
                           transaction_id |-> p.transaction_id, pre_db |-> p.pre_db,
                           changes |-> p.changes])
       IN  IF identifier = <<>> THEN abort("Table identifier is required")
           ELSE IF ns_id = NULL THEN abort("Namespace not found")
           ELSE IF t.id = NULL THEN abort("Table not found")
           ELSE IF failing # 0 THEN abort("Table requirement not met")
           ELSE /\ ops[c] < MaxOps
                /\ ops' = [ops EXCEPT ![c] = @ + 1]
                /\ proc' = [proc EXCEPT ![c] =
                               [pc |-> "updates", op |-> "transaction",
                                transaction_id |-> p.transaction_id,
                                table_id |-> t.id, table_record |-> t,
                                requirements |-> reqs,
                                pre |-> TableState(db, t.id), pre_db |-> p.pre_db,
                                writes_from |-> PyNone, updates |-> <<>>,
                                applied |-> 0, changes |-> p.changes + 1]]
                /\ UNCHANGED resp
    /\ UNCHANGED <<db, cache, now>>

\* commit_transaction after the last table change: UPDATE transactions SET status
CommitTransactionFinish(c) ==
    /\ proc[c].pc \in {"changes", "updates"}
    /\ proc[c].op = "transaction"
    /\ LET p == proc[c]
       IN  /\ db' = [db EXCEPT !.transactions =
                        {IF x.transaction_id = p.transaction_id
                         THEN [x EXCEPT !.status = "completed"] ELSE x : x \in @}]
           /\ Done(c, [op |-> "transaction", ok |-> TRUE,
                       transaction_id |-> p.transaction_id, pre_db |-> p.pre_db,
                       changes |-> p.changes])
    /\ proc' = [proc EXCEPT ![c] = Idle]
    /\ UNCHANGED <<cache, now, ops>>

\* ------------------------------------------------------------------ inputs

NoProps == <<>>

\* CreateTableRequest values: location <<>> when omitted, "schema-id"/"spec-id"
\* NULL when omitted, a partition field NULL when it carries no field-id.
CreateRequests ==
    { [name |-> "t1", location |-> <<>>,
       schema |-> [schema_id |-> NULL, fields |-> {1, 2}],
       partition_spec |-> [given |-> FALSE], write_order |-> NULL,
       properties |-> NoProps, credentials |-> <<>>],
      [name |-> "t2", location |-> <<"s3", "b">>,
       schema |-> [schema_id |-> 0, fields |-> {1}],
       partition_spec |-> [given |-> TRUE, spec_id |-> NULL, fields |-> <<NULL>>],
       write_order |-> NULL,
       properties |-> NoProps, credentials |-> <<>>] }

\* The objects a commit's updates list carries (update.__root__): an action
\* and the attributes _apply_update reads for it.
Updates ==
    { [action |-> "assign-uuid", uuid |-> 9],
      [action |-> "upgrade-format-version", format_version |-> 1],
      [action |-> "upgrade-format-version", format_version |-> 3],
      [action |-> "add-schema", schema |-> [schema_id |-> NULL, fields |-> {3}]],
      [action |-> "add-schema", schema |-> [schema_id |-> 0, fields |-> {1}]],
      [action |-> "set-current-schema", schema_id |-> -1],
      [action |-> "set-current-schema", schema_id |-> 7],
      [action |-> "add-spec", spec |-> [spec_id |-> NULL, fields |-> <<NULL>>]],
      [action |-> "set-default-spec", spec_id |-> -1],
      [action |-> "add-sort-order", order_id |-> 1],
      [action |-> "set-default-sort-order", sort_order_id |-> -1],
      [action |-> "add-snapshot",
       snapshot |-> [snapshot_id |-> 1, parent_snapshot_id |-> NULL, sequence_number |-> 2]],
      [action |-> "add-snapshot",
       snapshot |-> [snapshot_id |-> 2, parent_snapshot_id |-> 1, sequence_number |-> 1]],
      [action |-> "set-snapshot-ref", ref_name |-> "main", snapshot_id |-> 1,
       type |-> "branch"],
      [action |-> "remove-snapshots", snapshot_ids |-> {1}],
      [action |-> "remove-snapshot-ref", ref_name |-> "main"],
      [action |-> "set-location", location |-> <<"s3", "moved">>],
      [action |-> "set-properties", updates |-> [k \in {"k1"} |-> "v1"]],
      [action |-> "remove-properties", removals |-> {"k1"}],
      [action |-> "set-statistics", snapshot_id |-> 1, statistics_path |-> "s"],
      [action |-> "set-partition-statistics", snapshot_id |-> 1, statistics_path |-> "p"],
      [action |-> "remove-statistics", snapshot_id |-> 1],
      [action |-> "remove-partition-statistics", snapshot_id |-> 1],
      [action |-> "remove-partition-specs", spec_ids |-> {0}],
      [action |-> "remove-schemas", schema_ids |-> {0}],
      [action |-> "enable-row-lineage"],
      [action |-> "compact-everything"] }

\* The objects a commit's requirements list carries.
Requirements ==
    { [type |-> "assert-create"],
      [type |-> "assert-table-uuid", uuid |-> 1],
      [type |-> "assert-table-uuid", uuid |-> 9],
      [type |-> "assert-ref-snapshot-id", ref |-> "main", snapshot_id |-> NULL],
      [type |-> "assert-ref-snapshot-id", ref |-> "main", snapshot_id |-> 1],
      [type |-> "assert-last-assigned-field-id", last_assigned_field_id |-> 2],
      [type |-> "assert-current-schema-id", current_schema_id |-> 0],
      [type |-> "assert-current-schema-id", current_schema_id |-> 1],
      [type |-> "assert-last-assigned-partition-id", last_assigned_partition_id |-> 0],
      [type |-> "assert-default-spec-id", default_spec_id |-> 0],
      [type |-> "assert-default-sort-order-id", default_sort_order_id |-> 1],
      [type |-> "assert-no-readers"] }

\* The requirement pairs tried besides the empty list and the singletons.
PairedRequirements ==
    { [type |-> "assert-current-schema-id", current_schema_id |-> 0],
      [type |-> "assert-table-uuid", uuid |-> 9],
      [type |-> "assert-no-readers"] }

RequirementLists ==
    {<<>>} \cup {<<r>> : r \in Requirements}
           \cup {<<r1, r2>> : r1 \in PairedRequirements, r2 \in PairedRequirements}

\* update_table calls: every requirement list against an existing table, and
\* the lookups that fail.
UpdateTableCalls ==
    {[levels |-> <<"a">>, name |-> "t1", requirements |-> reqs] : reqs \in RequirementLists}
    \cup {[levels |-> l, name |-> n, requirements |-> <<>>] :
             l \in {<<"a">>, <<"b">>}, n \in {"t2", "t3"}}

\* The table changes of a commit_transaction request; identifier <<>> when the
\* change carries none.
TableChanges ==
    {[identifier |-> <<>>, requirements |-> <<>>]}
    \cup {[identifier |-> [namespace |-> l, name |-> n], requirements |-> <<>>] :
             l \in {<<"a">>, <<"b">>}, n \in {"t1", "t2", "t3"}}
    \cup {[identifier |-> [namespace |-> <<"a">>, name |-> "t2"], requirements |-> <<r>>] :
             r \in PairedRequirements}

\* ------------------------------------------------------------------ claims

\* The last call of client c was an update_table that got as far as outcome r.
Committed(c) == resp[c].op = "commit" /\ resp[c].ok

UpdateRaised(c) ==
    resp[c].op = "commit" /\ ~resp[c].ok /\ resp[c].error = "update raised"

RequirementRejected(c) ==
    resp[c].op = "commit" /\ ~resp[c].ok /\ resp[c].error = "Table requirement not met"

TransactionFailed(c) == resp[c].op = "transaction" /\ ~resp[c].ok

\* C1 (commit atomicity): when the k-th update of an update_table call raises,
\* the table's header, all its child rows and its metadata log are, after the
\* call has returned, exactly what they were before the call.
CommitAtomicity ==
    \A c \in Clients :
        UpdateRaised(c) => TableState(db, resp[c].table_id) = resp[c].pre

\* C3 (ETag monotonicity): after a successful update_table the table's ETag
\* differs from its ETag before the call.
ETagChangesOnCommit ==
    \A c \in Clients :
        Committed(c) =>
            LET after == TableById(db, resp[c].table_id)
                before == resp[c].pre.header
            IN  ETag(after.table_uuid, after.last_updated_ms)
                    # ETag(before.table_uuid, before.last_updated_ms)

\* C6 (requirements first): a rejected update_table names the first requirement,
\* in declaration order, that does not hold of the table as the call read it,
\* and none of the request's updates has been applied; a call that reached its
\* update loop had every requirement holding.
RequirementsFirst ==
    \A c \in Clients :
        /\ RequirementRejected(c) =>
              LET r == resp[c]
                  holds(j) == ValidateRequirement(r.pre_db, r.table_id, r.pre.header,
                                                  r.requirements[j])
              IN  /\ r.index \in 1..Len(r.requirements)
                  /\ \A j \in 1..(r.index - 1) : holds(j)
                  /\ ~holds(r.index)
                  /\ r.type = r.requirements[r.index].type
                  /\ r.applied = 0
                  /\ TableState(db, r.table_id) = r.pre
        /\ (proc[c].pc = "updates" /\ proc[c].op = "commit") =>
              \A j \in 1..Len(proc[c].requirements) :
                  ValidateRequirement(proc[c].pre_db, proc[c].table_id,
                                      proc[c].pre.header, proc[c].requirements[j])

\* A call rejected at its second requirement, an unknown type, after the first held.
RequirementsFirstWitness ==
    \E c \in Clients :
        /\ RequirementRejected(c)
        /\ resp[c].index = 2
        /\ resp[c].type = "assert-no-readers"

\* C8 (multi-table transaction atomicity): when commit_transaction fails, every
\* table is as it was before the call.
TransactionAtomicity ==
    \A c \in Clients :
        TransactionFailed(c) =>
            \A t \in resp[c].pre_db.tables :
                TableState(db, t.id) = TableState(resp[c].pre_db, t.id)

\* C9 (sequence monotonicity): every step leaves a table's last_sequence_number
\* at the maximum of its previous value and the sequence numbers of the snapshot
\* rows the step inserted; in particular no step decreases it.
SequenceMonotonic ==
    [][\A t \in db.tables :
          LET after == TableById(db', t.id)
              inserted == Rows(db', "snapshots", t.id) \ Rows(db, "snapshots", t.id)
          IN  after.id # NULL =>
                  after.last_sequence_number =
                      Max({t.last_sequence_number} \cup {r.sequence_number : r \in inserted})
      ]_vars

\* A table whose latest snapshot carries a smaller sequence number than an
\* earlier one, after a successful commit.
SequenceMonotonicWitness ==
    \E c \in Clients :
        /\ Committed(c)
        /\ LET t == TableById(db, resp[c].table_id)
           IN  /\ t.id # NULL
               /\ t.current_snapshot_id = 2
               /\ t.last_sequence_number = 2
               /\ \E r \in Rows(db, "snapshots", t.id) :
                     r.snapshot_id = 2 /\ r.sequence_number = 1

\* C10 (live pointers): after a successful commit the table's current_schema_id,
\* default_spec_id and default_sort_order_id are ids of rows that exist.
PointersExist ==
    \A c \in Clients :
        Committed(c) =>
            LET t == TableById(db, resp[c].table_id)
            IN  t.id # NULL =>
                    /\ KeyTaken(db, "schemas", t.id, "schema_id", t.current_schema_id)
                    /\ KeyTaken(db, "partition_specs", t.id, "spec_id", t.default_spec_id)
                    /\ KeyTaken(db, "sort_orders", t.id, "order_id",
                                t.default_sort_order_id)

\* C11 (refs point to snapshots): after a successful commit every snapshot ref
\* of the table names a snapshot row that exists for that table.
RefsPointToSnapshots ==
    \A c \in Clients :
        Committed(c) =>
            \A r \in Rows(db, "snapshot_refs", resp[c].table_id) :
                KeyTaken(db, "snapshots", resp[c].table_id, "snapshot_id", r.snapshot_id)

\* C12 (table_uuid immutable): no step changes the table_uuid of a table that
\* exists before and after it, and a commit's metadata document carries the
\* uuid the table had before the commit.
TableUuidImmutable ==
    [][/\ \A t \in db.tables :
             LET after == TableById(db', t.id)
             IN  after.id # NULL => after.table_uuid = t.table_uuid
       /\ \A c \in Clients :
             (resp'[c].op = "commit" /\ resp'[c].ok) =>
                 resp'[c].metadata.table_uuid = resp'[c].pre.header.table_uuid
      ]_vars


\* C21 (metadata log): no step removes or rewrites a metadata-log entry; a step
\* that returns a successful update_table leaves the table with exactly one
\* entry more than the call found, a step that returns a rejected one leaves
\* it with as many, and a step that returns a successful commit_transaction
\* leaves the log with one entry more per table change it committed.
MetadataLogCountsCommits ==
    [][/\ db.metadata_log \subseteq db'.metadata_log
       /\ \A c \in Clients :
             resp'[c] # resp[c] =>
                 LET r == resp'[c]
                     entries(d, tid) == Cardinality(Rows(d, "metadata_log", tid))
                 IN  /\ (r.op = "commit" /\ r.ok) =>
                            entries(db', r.table_id) = entries(r.pre_db, r.table_id) + 1
                     /\ (r.op = "commit" /\ ~r.ok
                             /\ r.error = "Table requirement not met") =>
                            entries(db', r.table_id) = entries(r.pre_db, r.table_id)
                     /\ (r.op = "transaction" /\ r.ok) =>
                            Cardinality(db'.metadata_log) =
                                Cardinality(r.pre_db.metadata_log) + r.changes
      ]_vars


\* The commit engine driven by one client.
Next ==
    \/ Tick
    \/ CreateNamespace("A", <<"a">>)
    \/ \E req \in CreateRequests : CreateTable("A", <<"a">>, req)
    \/ \E call \in UpdateTableCalls :
          UpdateTableBegin("A", call.levels, call.name, call.requirements)
    \/ \E u \in Updates : ApplyUpdateStep("A", u)
    \/ UpdateTableFinish("A")
    \/ CommitTransactionBegin("A")
    \/ \E change \in TableChanges :
          TableChangeBegin("A", change.identifier, change.requirements)
    \/ CommitTransactionFinish("A")

Spec == Init /\ [][Next]_vars

\* ------------------------------------------------------- loads and the cache

CredentialRequests ==
    { [prefix |-> "a", warehouse |-> <<"wh">>, config |-> [k \in {"region"} |-> "eu-1"],
       table_id |-> NULL, overwrite |-> FALSE],
      [prefix |-> "a", warehouse |-> <<"wh", "a">>,
       config |-> [k \in {"access-key-id"} |-> "AK"], table_id |-> NULL,
       overwrite |-> TRUE] }

LoadUpdates ==
    { [action |-> "set-location", location |-> <<"s3", "moved">>],
      [action |-> "add-snapshot",
       snapshot |-> [snapshot_id |-> 1, parent_snapshot_id |-> NULL, sequence_number |-> 2]],
      [action |-> "upgrade-format-version", format_version |-> 3] }

\* The If-None-Match values a client sends for a table: none, the ETag the
\* table has now, or the ETag of a table that no longer exists.
IfNoneMatchValues(levels, name) ==
    LET t == TableRow(db, NamespaceId(db, levels), name)
    IN  {<<>>, ETag(0, 0)}
        \cup (IF t.id = NULL THEN {} ELSE {ETag(t.table_uuid, t.last_updated_ms)})

\* One client creating, loading, committing to, renaming and dropping tables.
LoadNext ==
    \/ Tick
    \/ CreateNamespace("A", <<"a">>)
    \/ \E req \in {r \in CreateRequests : r.name = "t1"} : CreateTable("A", <<"a">>, req)
    \/ \E n \in {"t1", "t2"}, snapshots \in {"all", "refs"} :
          \E inm \in IfNoneMatchValues(<<"a">>, n) :
              LoadTable("A", <<"a">>, n, snapshots, inm)
    \/ \E req \in CredentialRequests : CreateCredentials("A", req)
    \/ UpdateTableBegin("A", <<"a">>, "t1", <<>>)
    \/ \E u \in LoadUpdates : ApplyUpdateStep("A", u)
    \/ UpdateTableFinish("A")
    \/ DropTable("A", <<"a">>, "t1")
    \/ RenameTable("A", <<"a">>, "t1", <<"a">>, "t2")

LoadSpec == Init /\ [][LoadNext]_vars

LoadAnswered(c) == resp[c].op = "load" /\ resp[c].status # 404

\* C4 (stale cache): a conditional load answered 200 from the cache carries the
\* metadata document an unconditional load of that table would return now.
CachedLoadIsCurrent ==
    \A c \in Clients :
        (LoadAnswered(c) /\ resp[c].status = 200 /\ resp[c].cached) =>
            LET t == TableById(db, resp[c].table_id)
            IN  resp[c].body.metadata =
                    BuildTableResponse(db, t.id,
                        [format_version |-> t.format_version, table_uuid |-> t.table_uuid],
                        resp[c].snapshots)

\* C5 (conditional load outcome): If-None-Match equal to the current ETag gives
\* 200 with the cached envelope, config and storage-credentials replaced by the
\* values the request resolved, when the cache holds an entry, and a bodyless
\* 304 when it holds none; any other load gives a full 200 whose envelope is
\* then the cache entry.
ConditionalLoadOutcome ==
    \A c \in Clients :
        LoadAnswered(c) =>
            LET r == resp[c]
                t == TableById(db, r.table_id)
            IN  IF r.if_none_match = ETag(t.table_uuid, t.last_updated_ms)
                THEN IF r.hit
                     THEN /\ r.status = 200
                          /\ r.body = [r.before EXCEPT
                                          !.config = r.config,
                                          !.storage_credentials = PyList(r.credentials)]
                     ELSE r.status = 304 /\ "body" \notin DOMAIN r
                ELSE /\ r.status = 200
                     /\ r.body.metadata =
                            BuildTableResponse(db, t.id,
                                [format_version |-> t.format_version,
                                 table_uuid |-> t.table_uuid], r.snapshots)
                     /\ r.body.config = r.config
                     /\ r.body.storage_credentials = PyList(r.credentials)
                     /\ r.key \in DOMAIN cache /\ cache[r.key] = r.body

\* The child tables of the schema that reference tables(id).
ChildTables ==
    {"schemas", "partition_specs", "sort_orders", "snapshots", "snapshot_refs",
     "table_statistics", "partition_statistics", "metadata_log"}

\* C18 (cascade): after a successful drop of a table no row of a child table
\* references its id, and exists and load of the identifier report it absent.
DropCascades ==
    \A c \in Clients :
        (resp[c].op = "drop" /\ resp[c].status = 204) =>
            LET r == resp[c]
            IN  /\ \A child \in ChildTables : Rows(db, child, r.table_id) = {}
                /\ TableById(db, r.table_id).id = NULL
                /\ ~TableExists(db, r.namespace, r.name)
                /\ TableRow(db, NamespaceId(db, r.namespace), r.name).id = NULL

\* A dropped table that had a snapshot and a metadata-log entry.
DropCascadesWitness ==
    \E c \in Clients :
        /\ resp[c].op = "drop" /\ resp[c].status = 204
        /\ resp[c].pre.snapshots # {}
        /\ resp[c].pre.metadata_log # {}

\* -------------------------------------------- several updates in one request

\* Updates whose effect depends on what an earlier update of the same request
\* wrote: schemas with new field ids, and property changes.
ChainUpdates ==
    { [action |-> "add-schema", schema |-> [schema_id |-> NULL, fields |-> {4}]],
      [action |-> "add-schema", schema |-> [schema_id |-> NULL, fields |-> {3}]],
      [action |-> "set-properties", updates |-> [k \in {"k1"} |-> "v1"]],
      [action |-> "set-properties", updates |-> [k \in {"k2"} |-> "v2"]],
      [action |-> "remove-properties", removals |-> {"k1"}] }

\* One client committing lists of those updates to one table.
ChainNext ==
    \/ Tick
    \/ CreateNamespace("A", <<"a">>)
    \/ \E req \in {r \in CreateRequests : r.name = "t1"} : CreateTable("A", <<"a">>, req)
    \/ UpdateTableBegin("A", <<"a">>, "t1", <<>>)
    \/ \E u \in ChainUpdates : ApplyUpdateStep("A", u)
    \/ UpdateTableFinish("A")

ChainSpec == Init /\ [][ChainNext]_vars

\* C13 (field ids bounded): after a successful update_table every field id of
\* every stored schema of the table is at most the table's last_column_id, and
\* last_column_id is not below its value before the commit.
FieldIdsBounded ==
    \A c \in Clients :
        Committed(c) =>
            LET t == TableById(db, resp[c].table_id)
            IN  t.id # NULL =>
                    /\ \A r \in Rows(db, "schemas", t.id) :
                           \A f \in r.fields : f <= t.last_column_id
                    /\ t.last_column_id >= resp[c].pre.header.last_column_id

RECURSIVE OnePerCommit(_, _, _)
\* The store after the updates us, each applied by a commit of its own: each
\* commit reads the header afresh.
OnePerCommit(d, tid, us) ==
    IF us = <<>> THEN d
    ELSE OnePerCommit(ApplyUpdate(d, tid, TableById(d, tid), us[1]).db, tid, Tail(us))

\* The header and child rows of a table, the metadata log aside.
Content(d, tid) == [TableState(d, tid) EXCEPT !.metadata_log = {}]

\* C14 (in-request chaining): a successful update_table leaves the table as
\* applying its updates one per commit, in the same order, leaves it.
ChainedAsSeparateCommits ==
    \A c \in Clients :
        Committed(c) =>
            Content(db, resp[c].table_id) =
                Content(OnePerCommit(resp[c].pre_db, resp[c].table_id, resp[c].updates),
                        resp[c].table_id)

\* ------------------------------------------------ namespace and table life cycle

LifecycleNamespaces == {<<"a">>, <<"dev_namespace">>, <<"pages not found">>}

\* One client creating, renaming and dropping namespaces and tables.
LifecycleNext ==
    \/ \E l \in LifecycleNamespaces : CreateNamespace("A", l)
    \/ \E l \in LifecycleNamespaces, req \in {r \in CreateRequests : r.name = "t1"} :
          CreateTable("A", l, req)
    \/ \E l \in LifecycleNamespaces : DropNamespace("A", l)
    \/ \E l \in LifecycleNamespaces : DropTable("A", l, "t1")
    \/ \E src \in {<<"a">>, <<"dev_namespace">>}, dst \in {<<"a">>, <<"dev_namespace">>} :
          RenameTable("A", src, "t1", dst, IF src = dst THEN "t2" ELSE "t1")

LifecycleSpec == Init /\ [][LifecycleNext]_vars

\* C16 (namespace drop): a drop of an absent namespace answers 404
\* NoSuchNamespaceException, a drop of a namespace that owns a table or view
\* answers 409 NamespaceNotEmptyException, both leaving the store as it was;
\* any other drop answers 204 and deletes that namespace row and nothing else.
NamespaceDropOutcome ==
    \A c \in Clients :
        resp[c].op = "drop_namespace" =>
            LET r == resp[c]
                d == r.pre_db
            IN  IF ~NamespaceExists(d, r.namespace)
                THEN r.status = 404 /\ r.type = "NoSuchNamespaceException" /\ db = d
                ELSE IF HasChildren(d, r.namespace)
                THEN r.status = 409 /\ r.type = "NamespaceNotEmptyException" /\ db = d
                ELSE /\ r.status = 204
                     /\ db = [d EXCEPT !.namespaces =
                                 {n \in @ : n.levels # r.namespace}]

\* C19 (rename error precedence): a rename answers with the first condition
\* that fails, in the order source namespace, destination namespace, source
\* table, destination table, and a failed rename changes no table row.
RenamePrecedence ==
    \A c \in Clients :
        resp[c].op = "rename" =>
            LET r == resp[c]
                d == r.pre_db
                failed(status, type) ==
                    r.status = status /\ r.type = type /\ db.tables = d.tables
            IN  IF ~NamespaceExists(d, r.source.namespace)
                   \/ ~NamespaceExists(d, r.destination.namespace)
                THEN failed(404, "NoSuchNamespaceException")
                ELSE IF ~TableExists(d, r.source.namespace, r.source.name)
                THEN failed(404, "NoSuchTableException")
                ELSE IF TableExists(d, r.destination.namespace, r.destination.name)
                THEN failed(409, "AlreadyExistsException")
                ELSE r.status = 204

\* C20 (rename effect and frame): after a successful rename the table is found
\* under the destination and not under the source, its header apart from
\* (namespace_id, name) and its child rows are what they were, and every other
\* table is untouched.
RenameEffect ==
    \A c \in Clients :
        (resp[c].op = "rename" /\ resp[c].status = 204) =>
            LET r == resp[c]
                d == r.pre_db
                dst_ns == NamespaceId(d, r.destination.namespace)
                t == TableById(d, r.table_id)
            IN  /\ TableExists(db, r.destination.namespace, r.destination.name)
                /\ ~TableExists(db, r.source.namespace, r.source.name)
                /\ TableRow(db, dst_ns, r.destination.name).id = t.id
                /\ TableState(db, t.id) =
                       [TableState(d, t.id) EXCEPT
                           !.header = [t EXCEPT !.namespace_id = dst_ns,
                                                !.name = r.destination.name]]
                /\ {o.id : o \in db.tables} = {o.id : o \in d.tables}
                /\ \A o \in d.tables :
                       o.id # t.id => TableState(db, o.id) = TableState(d, o.id)

\* A table renamed into the other namespace while a table of the same name
\* exists elsewhere.
RenameEffectWitness ==
    \E c \in Clients :
        /\ resp[c].op = "rename" /\ resp[c].status = 204
        /\ resp[c].source.namespace # resp[c].destination.namespace
        /\ Cardinality(db.tables) = 2

\* ------------------------------------- life-cycle handlers, statement by statement

\* The unique keys of namespaces(levels) and tables(namespace_id, name): an
\* INSERT or UPDATE that would produce a second row with the key fails.
NamespaceKeyTaken(d, levels) == \E n \in d.namespaces : n.levels = levels
TableKeyTaken(d, ns_id, name) ==
    \E t \in d.tables : t.namespace_id = ns_id /\ t.name = name

\* A handler that answers with success whatever the store said.
SwallowedStatus(failed, status) == status

\* "except Exception: ... raise" in the service, "except Exception" in the route:
\* an error of the store becomes a 500.
InsertStatus(failed, status) == IF failed THEN 500 ELSE status

\* The answer of a handler run statement by statement: the call it answers and
\* the store the call started from.
Answer(c, fields) ==
    /\ Done(c, [op |-> proc[c].op, call |-> proc[c].call, pre_db |-> proc[c].pre_db]
               @@ fields)
    /\ proc' = [proc EXCEPT ![c] = Idle]

\* The handler of client c moves on to its next statement.
Goto(c, pc) == proc' = [proc EXCEPT ![c].pc = pc] /\ UNCHANGED resp

\* A call arrives: the handler is at its first statement.
Call(c, op, call) ==
    /\ proc[c].pc = "idle"
    /\ proc' = [proc EXCEPT ![c] = [pc |-> op, op |-> op, call |-> call, pre_db |-> db]]
    /\ Done(c, NoResp)
    /\ UNCHANGED <<db, cache, now, ops>>

\* create_namespace: namespace_exists, then INSERT INTO namespaces
CreateNamespaceStep(c) ==
    /\ proc[c].pc # "idle" /\ proc[c].op = "create_namespace"
    /\ LET p == proc[c]
           levels == p.call.namespace
       IN  CASE p.pc = "create_namespace" ->
                  /\ IF NamespaceExists(db, levels)
                     THEN Answer(c, [status |-> 409])
                     ELSE Goto(c, "insert")
                  /\ UNCHANGED <<db, ops>>
             [] p.pc = "insert" ->
                  LET failed == NamespaceKeyTaken(db, levels)
                  IN  /\ db' = IF failed THEN db
                               ELSE [db EXCEPT !.namespaces = @ \cup
                                        {[id |-> db.next_ns_id, levels |-> levels,
                                          properties |-> <<>>]},
                                               !.next_ns_id = @ + 1]
                      /\ Answer(c, [status |-> InsertStatus(failed, 200)])
                      /\ UNCHANGED ops
    /\ UNCHANGED <<cache, now>>

\* create_table: namespace_exists, table_exists, SELECT id FROM namespaces, then
\* the INSERT INTO tables and the inserts of the child rows.
CreateTableStep(c) ==
    /\ proc[c].pc # "idle" /\ proc[c].op = "create"
    /\ LET p == proc[c]
           levels == p.call.namespace
           req == p.call.request
           ns_id == NamespaceId(db, levels)
       IN  CASE p.pc = "create" ->
                  /\ IF ~NamespaceExists(db, levels)
                     THEN Answer(c, [status |-> 404])
                     ELSE Goto(c, "table_exists")
                  /\ UNCHANGED <<db, ops>>
             [] p.pc = "table_exists" ->
                  /\ IF TableExists(db, levels, req.name)
                     THEN Answer(c, [status |-> 409])
                     ELSE Goto(c, "namespace_id")
                  /\ UNCHANGED <<db, ops>>
             [] p.pc = "namespace_id" ->
                  /\ IF ns_id = NULL
                     THEN Answer(c, [status |-> 500])
                     ELSE /\ proc' = [proc EXCEPT ![c] =
                                         [pc |-> "insert", namespace_id |-> ns_id] @@ p]
                          /\ UNCHANGED resp
                  /\ UNCHANGED <<db, ops>>
             [] p.pc = "insert" ->
                  LET failed == TableKeyTaken(db, p.namespace_id, req.name)
                      tid == db.next_table_id
                  IN  /\ ~failed => ops[c] < MaxOps /\ db.next_table_id <= MaxTables
                      /\ db' = IF failed THEN db
                               ELSE InsertInlineCredentials(
                                        InsertNewTable(db, p.namespace_id, levels, req, now),
                                        levels, tid, req)
                      /\ ops' = IF failed THEN ops ELSE [ops EXCEPT ![c] = @ + 1]
                      /\ Answer(c, [status |-> InsertStatus(failed, 200), table_id |-> tid])
    /\ UNCHANGED <<cache, now>>

\* rename_table: the four checks, the two SELECT id FROM namespaces, the UPDATE.
\* An UPDATE that matches no row changes nothing and is no error.
RenameTableStep(c) ==
    /\ proc[c].pc # "idle" /\ proc[c].op = "rename"
    /\ LET p == proc[c]
           src == p.call.source
           dst == p.call.destination
           raise(message) == Answer(c, [message |-> message] @@ RenameError(message))
           read(ok, message, next) ==
               /\ IF ok THEN Goto(c, next) ELSE raise(message)
               /\ UNCHANGED <<db, ops>>
       IN  CASE p.pc = "rename" ->
                  read(NamespaceExists(db, src.namespace),
                       "Source namespace not found: " \o Repr(src.namespace),
                       "destination_namespace")
             [] p.pc = "destination_namespace" ->
                  read(NamespaceExists(db, dst.namespace),
                       "Destination namespace not found: " \o Repr(dst.namespace),
                       "source_table")
             [] p.pc = "source_table" ->
                  read(TableExists(db, src.namespace, src.name),
                       "Source table not found: " \o Qualified(src.namespace, src.name),
                       "destination_table")
             [] p.pc = "destination_table" ->
                  read(~TableExists(db, dst.namespace, dst.name),
                       "Destination table already exists: "
                           \o Qualified(dst.namespace, dst.name),
                       "namespace_ids")
             [] p.pc = "namespace_ids" ->
                  LET src_ns == NamespaceId(db, src.namespace)
                      dst_ns == NamespaceId(db, dst.namespace)
                  IN  /\ IF src_ns = NULL \/ dst_ns = NULL
                         THEN Answer(c, [status |-> 500])
                         ELSE /\ proc' = [proc EXCEPT ![c] =
                                             [pc |-> "update", source_namespace_id |-> src_ns,
                                              destination_namespace_id |-> dst_ns] @@ p]
                              /\ UNCHANGED resp
                      /\ UNCHANGED <<db, ops>>
             [] p.pc = "update" ->
                  LET src_ns == p.source_namespace_id
                      dst_ns == p.destination_namespace_id
                      matched == {t \in db.tables :
                                     t.namespace_id = src_ns /\ t.name = src.name}
                      failed == /\ matched # {}
                                /\ \E o \in db.tables \ matched :
                                      o.namespace_id = dst_ns /\ o.name = dst.name
                  IN  /\ ~failed => ops[c] < MaxOps
                      /\ db' = IF failed THEN db
                               ELSE RenameRow(db, src_ns, src.name, dst_ns, dst.name)
                      /\ ops' = IF failed THEN ops ELSE [ops EXCEPT ![c] = @ + 1]
                      /\ Answer(c, [status |-> InsertStatus(failed, 204)])
    /\ UNCHANGED <<cache, now>>

\* drop_namespace: namespace_exists, the has_children query, the DELETE.
DropNamespaceStep(c) ==
    /\ proc[c].pc # "idle" /\ proc[c].op = "drop_namespace"
    /\ LET p == proc[c]
           levels == p.call.namespace
           raise(message) ==
               Answer(c, [message |-> message] @@ DropNamespaceError(message))
       IN  CASE p.pc = "drop_namespace" ->
                  /\ IF NamespaceExists(db, levels) THEN Goto(c, "has_children")
                     ELSE raise("Namespace not found: " \o Repr(levels))
                  /\ UNCHANGED <<db, ops>>
             [] p.pc = "has_children" ->
                  /\ IF HasChildren(db, levels)
                     THEN raise("Namespace is not empty: " \o Repr(levels))
                     ELSE Goto(c, "delete")
                  /\ UNCHANGED <<db, ops>>
             [] p.pc = "delete" ->
                  /\ ops[c] < MaxOps
                  /\ db' = DeleteNamespace(db, levels)
                  /\ ops' = [ops EXCEPT ![c] = @ + 1]
                  /\ Answer(c, [status |-> 204])
    /\ UNCHANGED <<cache, now>>

\* The calls that race: all of them about namespace b and table b.t1.
RaceCalls ==
    { [op |-> "create_namespace", namespace |-> <<"b">>],
      [op |-> "create", namespace |-> <<"b">>,
       request |-> CHOOSE r \in CreateRequests : r.name = "t1"],
      [op |-> "rename", source |-> [namespace |-> <<"a">>, name |-> "t1"],
       destination |-> [namespace |-> <<"b">>, name |-> "t1"]],
      [op |-> "drop_namespace", namespace |-> <<"b">>] }

\* No client has sent one of the racing calls so far.
NoRaceYet == \A c \in Clients : proc[c].pc = "idle" /\ "call" \notin DOMAIN resp[c]

\* Namespaces a and b and table a.t1 are set up by one client; then each of two
\* clients sends one call, and the statements of the two handlers interleave.
RaceNext ==
    \/ NoRaceYet /\ \E l \in {<<"a">>, <<"b">>} : CreateNamespace("A", l)
    \/ NoRaceYet /\ \E req \in {r \in CreateRequests : r.name = "t1"} :
                        CreateTable("A", <<"a">>, req)
    \/ \E c \in Clients, call \in RaceCalls :
          /\ "call" \notin DOMAIN resp[c]
          /\ Call(c, call.op, call)
    \/ \E c \in Clients : CreateNamespaceStep(c)
    \/ \E c \in Clients : CreateTableStep(c)
    \/ \E c \in Clients : RenameTableStep(c)
    \/ \E c \in Clients : DropNamespaceStep(c)

RaceSpec == Init /\ [][RaceNext]_vars

\* Both clients have their answer to the same create call, sent while the
\* identifier was free (and, for a table, its namespace present).
SameCreateAnswered ==
    /\ \A c \in Clients : "call" \in DOMAIN resp[c]
    /\ resp["A"].call = resp["B"].call
    /\ resp["A"].op \in {"create_namespace", "create"}
    /\ \A c \in Clients :
          LET r == resp[c]
          IN  IF r.op = "create_namespace"
              THEN ~NamespaceExists(r.pre_db, r.call.namespace)
              ELSE /\ NamespaceExists(r.pre_db, r.call.namespace)
                   /\ ~TableExists(r.pre_db, r.call.namespace, r.call.request.name)

TablesHaveNamespace ==
    \A t \in db.tables : \E n \in db.namespaces : n.id = t.namespace_id

RECURSIVE ReachableSnapshots(_, _, _)
\* The snapshot ids reachable from the ids in S along parent_snapshot_id.
ReachableSnapshots(d, tid, S) ==
    LET parents == {r.parent_snapshot_id :
                       r \in {x \in Rows(d, "snapshots", tid) : x.snapshot_id \in S}}
        next == S \cup (parents \ {NULL})
    IN  IF next = S THEN S ELSE ReachableSnapshots(d, tid, next)

\* C30 (snapshots filter): a load answered 200 for snapshots=refs carries only
\* snapshots reachable from a ref of the table, and one answered 200 for
\* snapshots=all carries every snapshot of the table, whether the body was
\* built for the request or taken from the cache.  Bodies taken from a cache
\* entry that no longer matches the stored table are left aside here.
SnapshotsFilter ==
    \A c \in Clients :
        (LoadAnswered(c) /\ resp[c].status = 200) =>
            LET r == resp[c]
                t == TableById(db, r.table_id)
                basic == [format_version |-> t.format_version,
                          table_uuid |-> t.table_uuid]
                current == r.body.metadata \in
                               {BuildTableResponse(db, t.id, basic, f) : f \in {"all", "refs"}}
                referenced == {x.snapshot_id : x \in Rows(db, "snapshot_refs", r.table_id)}
                reachable == ReachableSnapshots(db, r.table_id, referenced)
                carried == r.body.metadata.snapshots
            IN  current =>
                    IF r.snapshots = "refs"
                    THEN \A s \in carried : s.snapshot_id \in reachable
                    ELSE carried = {SnapshotDoc(x) : x \in Rows(db, "snapshots", r.table_id)}

\* ------------------------------------------------- namespace properties and listing

Range(s) == {s[i] : i \in 1..Len(s)}

RECURSIVE SetToSeq(_)
\* The elements of a Python set in the order its iteration yields them.
SetToSeq(S) ==
    IF S = {} THEN <<>>
    ELSE LET x == CHOOSE x \in S : TRUE IN <<x>> \o SetToSeq(S \ {x})

\* f"{common_keys}": the str() of a non-empty set of strings
ReprSet(S) == "{" \o JoinQuoted(SetToSeq(S)) \o "}"

\* The update_properties route's "except ValueError".
UpdatePropertiesError(message) ==
    LET m == Lower(message)
    IN  IF Contains(m, "not found")
        THEN [status |-> 404, type |-> "NoSuchNamespaceException"]
        ELSE IF Contains(m, "cannot remove and update")
        THEN [status |-> 422, type |-> "UnprocessableEntityException"]
        ELSE [status |-> 400, type |-> "BadRequestException"]

RECURSIVE ProcessRemovals(_, _, _)
\* "for key in removals": del properties[key] or missing_keys.append(key)
ProcessRemovals(acc, removals, i) ==
    IF i > Len(removals) THEN acc
    ELSE LET key == removals[i]
         IN  IF key \in DOMAIN acc.properties
             THEN ProcessRemovals([acc EXCEPT !.properties = DropProps(@, {key}),
                                              !.removed = Append(@, key)],
                                  removals, i + 1)
             ELSE ProcessRemovals([acc EXCEPT !.missing = Append(@, key)],
                                  removals, i + 1)

\* SELECT properties FROM namespaces WHERE levels = $1
NamespaceProperties(d, levels) ==
    (CHOOSE n \in d.namespaces : n.levels = levels).properties

\* UPDATE namespaces SET properties = $1 WHERE levels = $2
SetNamespaceProperties(d, levels, properties) ==
    [d EXCEPT !.namespaces =
        {IF n.levels = levels THEN [n EXCEPT !.properties = properties] ELSE n : n \in @}]

\* POST /v1/{prefix}/namespaces/{namespace}/properties:
\* NamespaceService.update_properties and its route.  removals is a list of
\* distinct keys, updates a map.
UpdateProperties(c, levels, req) ==
    /\ proc[c].pc = "idle"
    /\ LET request == [op |-> "update_properties", pre_db |-> db, namespace |-> levels,
                       removals |-> req.removals, updates |-> req.updates]
           raise(message) ==
               /\ Done(c, request @@ [message |-> message]
                                  @@ UpdatePropertiesError(message))
               /\ UNCHANGED <<db, ops>>
           common_keys == Range(req.removals) \cap DOMAIN req.updates
       IN  IF ~NamespaceExists(db, levels)
           THEN raise("Namespace not found: " \o Repr(levels))
           ELSE IF common_keys # {}
           THEN raise("Cannot remove and update the same property keys: "
                          \o ReprSet(common_keys))
           ELSE LET after == ProcessRemovals(
                                 [properties |-> NamespaceProperties(db, levels),
                                  removed |-> <<>>, missing |-> <<>>],
                                 req.removals, 1)
                    properties == MergeProps(after.properties, req.updates)
                IN  /\ ops[c] < MaxOps
                    /\ ops' = [ops EXCEPT ![c] = @ + 1]
                    /\ db' = SetNamespaceProperties(db, levels, properties)
                    /\ Done(c, request @@ [status |-> 200,
                                           updated |-> SetToSeq(DOMAIN req.updates),
                                           removed |-> after.removed,
                                           missing |-> after.missing])
    /\ UNCHANGED <<cache, now, proc>>

PropertyRemovals == {<<>>, <<"owner">>, <<"not found">>, <<"owner", "not found">>}

PropertyUpdates ==
    {NoProps, [k \in {"owner"} |-> "x"], [k \in {"not found"} |-> "y"],
     [k \in {"owner", "not found"} |-> "z"]}

PropertyRequests == [removals : PropertyRemovals, updates : PropertyUpdates]

\* Printable ASCII in code order: codes 32 to 95, and codes 97 to 126.
AsciiLow ==
    " !\"#$%&'()*+,-./0123456789:;<=>?@ABCDEFGHIJKLMNOPQRSTUVWXYZ[\\]^_"
AsciiHigh == "abcdefghijklmnopqrstuvwxyz{|}~"

\* ord(ch)
Ord ==
    [ch \in {SubSeq(AsciiLow, i, i) : i \in 1..Len(AsciiLow)} |->
        31 + (CHOOSE i \in 1..Len(AsciiLow) : SubSeq(AsciiLow, i, i) = ch)]
    @@
    [ch \in {SubSeq(AsciiHigh, i, i) : i \in 1..Len(AsciiHigh)} |->
        96 + (CHOOSE i \in 1..Len(AsciiHigh) : SubSeq(AsciiHigh, i, i) = ch)]

\* chr(n)
Chr(n) ==
    IF n < 96 THEN SubSeq(AsciiLow, n - 31, n - 31) ELSE SubSeq(AsciiHigh, n - 96, n - 96)

\* value.encode(): the bytes of an ASCII string
Bytes(s) == [i \in 1..Len(s) |-> Ord[SubSeq(s, i, i)]]

RECURSIVE Decoded(_)
\* bytes.decode()
Decoded(bytes) == IF bytes = <<>> THEN "" ELSE Chr(Head(bytes)) \o Decoded(Tail(bytes))

\* x < y for strings, by code of the first character that differs
StrBefore(x, y) ==
    \/ Len(x) < Len(y) /\ SubSeq(y, 1, Len(x)) = x
    \/ \E i \in 1..Len(x) :
          /\ i <= Len(y)
          /\ SubSeq(x, 1, i - 1) = SubSeq(y, 1, i - 1)
          /\ Ord[SubSeq(x, i, i)] < Ord[SubSeq(y, i, i)]

\* x < y for text[]: by the first element that differs, a prefix first
LevelsBefore(x, y) ==
    \/ Len(x) < Len(y) /\ SubSeq(y, 1, Len(x)) = x
    \/ \E i \in 1..Len(x) :
          /\ i <= Len(y)
          /\ SubSeq(x, 1, i - 1) = SubSeq(y, 1, i - 1)
          /\ StrBefore(x[i], y[i])

RECURSIVE OrderByLevels(_)
\* ... ORDER BY levels
OrderByLevels(S) ==
    IF S = {} THEN <<>>
    ELSE LET first == CHOOSE x \in S : \A y \in S \ {x} : LevelsBefore(x, y)
         IN  <<first>> \o OrderByLevels(S \ {first})

\* levels @> $1: every element of the parent occurs among the levels
ArrayContains(levels, parent) == Range(parent) \subseteq Range(levels)

\* levels is parent followed by one more label
ChildOf(levels, parent) ==
    Len(levels) = Len(parent) + 1 /\ SubSeq(levels, 1, Len(parent)) = parent

\* rows[:n]
Take(rows, n) == SubSeq(rows, 1, IF n < Len(rows) THEN n ELSE Len(rows))

\* GET /v1/{prefix}/namespaces: NamespaceService.list_namespaces and its route.
\* parent is the parsed parent, <<>> when none is given; page_token is "" and
\* page_size 0 when absent (None takes the branches "" and 0 take).  A page
\* token adds "levels > $%s" to the query text, which the store rejects;
\* encode_page_token is handed a list, which has no encode().  Both end in the
\* route's "except Exception".
ListNamespaces(c, parent, page_token, page_size) ==
    /\ proc[c].pc = "idle"
    /\ LET request == [op |-> "list_namespaces", pre_db |-> db, parent |-> parent,
                       page_token |-> page_token, page_size |-> page_size]
           matching == {n.levels : n \in {m \in db.namespaces :
                            parent # <<>> =>
                                /\ ArrayContains(m.levels, parent)
                                /\ Len(m.levels) = Len(parent) + 1}}
           namespace_records ==
               IF page_size # 0 THEN Take(OrderByLevels(matching), page_size + 1)
               ELSE OrderByLevels(matching)
           has_more == page_size # 0 /\ Len(namespace_records) > page_size
       IN  IF parent # <<>> /\ ~NamespaceExists(db, parent)
           THEN Done(c, request @@ [status |-> 404, type |-> "NoSuchNamespaceException"])
           ELSE IF page_token # ""
           THEN Done(c, request @@ [status |-> 500, type |-> "InternalServerError"])
           ELSE IF has_more
           THEN Done(c, request @@ [status |-> 500, type |-> "InternalServerError"])
           ELSE Done(c, request @@ [status |-> 200, namespaces |-> namespace_records,
                                    next_page_token |-> ""])
    /\ UNCHANGED <<db, cache, now, proc, ops>>

ListedNamespaces == {<<"a">>, <<"a", "b">>, <<"b", "a">>}

\* One client creating namespaces, changing their properties and listing them.
NamespaceNext ==
    \/ \E l \in ListedNamespaces : CreateNamespace("A", l)
    \/ \E l \in {<<"a">>}, req \in PropertyRequests : UpdateProperties("A", l, req)
    \/ \E parent \in {<<>>, <<"a">>, <<"c">>}, page_size \in 0..2 :
          ListNamespaces("A", parent, "", page_size)

NamespaceSpec == Init /\ [][NamespaceNext]_vars

\* C22 (namespace updateProperties): a request on an existing namespace with a
\* key both in removals and in updates answers 422 UnprocessableEntityException
\* and leaves the store as it was; any other request on an existing namespace
\* stores (old map minus removals) overlaid with updates, reports as removed
\* the removals that were present, as missing those that were not, and as
\* updated exactly the keys of updates.
UpdatePropertiesOutcome ==
    \A c \in Clients :
        resp[c].op = "update_properties" =>
            LET r == resp[c]
                d == r.pre_db
                old == NamespaceProperties(d, r.namespace)
                present == {k \in Range(r.removals) : k \in DOMAIN old}
            IN  NamespaceExists(d, r.namespace) =>
                    IF Range(r.removals) \cap DOMAIN r.updates # {}
                    THEN /\ r.status = 422
                         /\ r.type = "UnprocessableEntityException"
                         /\ db = d
                    ELSE /\ r.status = 200
                         /\ NamespaceProperties(db, r.namespace) =
                                MergeProps(DropProps(old, Range(r.removals)), r.updates)
                         /\ Range(r.removed) = present
                         /\ Range(r.missing) = Range(r.removals) \ present
                         /\ Len(r.removed) + Len(r.missing) = Len(r.removals)
                         /\ Range(r.updated) = DOMAIN r.updates
                         /\ Len(r.updated) = Cardinality(DOMAIN r.updates)

\* C27 (namespace listing under a parent): a listing under an absent parent
\* answers 404; a listing under an existing parent, when it answers with a
\* page, returns exactly the namespaces that are the parent followed by one
\* more label, in ascending order; and a listing with a page size answers
\* with a page.
NamespaceListingUnderParent ==
    \A c \in Clients :
        (resp[c].op = "list_namespaces" /\ resp[c].parent # <<>>) =>
            LET r == resp[c]
                d == r.pre_db
                children == {n.levels : n \in {m \in d.namespaces :
                                 ChildOf(m.levels, r.parent)}}
            IN  IF ~NamespaceExists(d, r.parent)
                THEN r.status = 404
                ELSE /\ r.status = 200
                     /\ Range(r.namespaces) \subseteq children
                     /\ (r.page_size = 0 => r.namespaces = OrderByLevels(children))

\* ------------------------------------------------------- credential resolution

\* TableService.load_credentials: the lists the credentials endpoint may return
\* for a table that exists.
LoadedCredentials(d, levels, name) ==
    LET t == TableRow(d, NamespaceId(d, levels), name)
        namespace_prefix == IF levels # <<>> THEN levels[1] ELSE "default"
        own == {r \in d.storage_credentials : r.table_id = t.id}
        byLocation == CredentialsForLocation(d, t.location)
        byPrefix == {r \in d.storage_credentials :
                        r.table_id = NULL /\ r.prefix = namespace_prefix}
        rows == IF own # {} THEN Orderings(own)
                ELSE IF byLocation # {} THEN ByWarehouseDesc(byLocation)
                ELSE ByWarehouseDesc(byPrefix)
    IN  {[i \in 1..Len(s) |-> AsStorageCredential(s[i])] : s \in rows}

\* GET /v1/{prefix}/namespaces/{namespace}/tables/{table}/credentials
LoadCredentials(c, levels, name) ==
    /\ proc[c].pc = "idle"
    /\ LET request == [op |-> "load_credentials", namespace |-> levels, name |-> name]
       IN  IF ~TableExists(db, levels, name)
           THEN Done(c, request @@ [status |-> 404])
           ELSE \E credentials \in LoadedCredentials(db, levels, name) :
                   Done(c, request @@
                           [status |-> 200,
                            table_id |-> TableRow(db, NamespaceId(db, levels), name).id,
                            credentials |-> credentials])
    /\ UNCHANGED <<db, cache, now, proc, ops>>

\* The load_table route when the store fails while get_storage_credentials
\* runs: get_table_basic_info and get_table_config have answered, the error
\* is not caught in the service and reaches the route's "except Exception".
LoadTableCredentialsFailing(c, levels, name) ==
    /\ proc[c].pc = "idle"
    /\ LET ns_id == NamespaceId(db, levels)
           t == TableRow(db, ns_id, name)
       IN  IF ns_id = NULL \/ t.id = NULL
           THEN Done(c, [op |-> "load", status |-> 404])
           ELSE Done(c, [op |-> "load", status |-> 500, type |-> "InternalServerError",
                         table_id |-> t.id, credentials_failed |-> TRUE,
                         cached |-> FALSE])
    /\ UNCHANGED <<db, cache, now, proc, ops>>

\* CredentialRequest values: two nested warehouses above table a.t1, one
\* warehouse above no table, and a row of table 1.
ResolverCredentials ==
    { [prefix |-> "a", warehouse |-> <<"wh">>, config |-> [k \in {"region"} |-> "eu-1"],
       table_id |-> NULL, overwrite |-> FALSE],
      [prefix |-> "x", warehouse |-> <<"wh", "a">>,
       config |-> [k \in {"access-key-id"} |-> "AK"], table_id |-> NULL,
       overwrite |-> TRUE],
      [prefix |-> "a", warehouse |-> <<"gs">>,
       config |-> [k \in {"region"} |-> "eu-2"], table_id |-> NULL, overwrite |-> TRUE],
      [prefix |-> "x", warehouse |-> <<"wh">>,
       config |-> [k \in {"session-token"} |-> "ST"], table_id |-> 1,
       overwrite |-> FALSE] }

\* One client storing credentials, creating tables a.t1 (under the default
\* warehouse) and a.t2 (elsewhere) and reading them.
CredentialNext ==
    \/ CreateNamespace("A", <<"a">>)
    \/ \E req \in CreateRequests : CreateTable("A", <<"a">>, req)
    \/ \E req \in ResolverCredentials : CreateCredentials("A", req)
    \/ \E n \in {"t1", "t2"} : LoadTable("A", <<"a">>, n, "all", <<>>)
    \/ \E n \in {"t1", "t2"} : LoadCredentials("A", <<"a">>, n)
    \/ \E n \in {"t1", "t2"} : LoadTableCredentialsFailing("A", <<"a">>, n)

CredentialSpec == Init /\ [][CredentialNext]_vars

\* The rows the precedence rule selects for a table, and the orders it allows.
Precedence(d, tid) ==
    LET t == TableById(d, tid)
        root == (CHOOSE n \in d.namespaces : n.id = t.namespace_id).levels[1]
        global == {r \in d.storage_credentials : r.table_id = NULL}
        own == {r \in d.storage_credentials : r.table_id = tid}
        byLocation == {r \in global : IsPrefix(r.warehouse, t.location)}
        byPrefix == {r \in global : r.prefix = root}
        rows == IF own # {} THEN Orderings(own)
                ELSE IF byLocation # {} THEN ByWarehouseDesc(byLocation)
                ELSE Orderings(byPrefix)
    IN  {[i \in 1..Len(s) |-> [prefix |-> s[i].warehouse, config |-> s[i].config]] :
            s \in rows}

\* C23 (credential precedence): the list the credentials endpoint returns for
\* a table, and the list a load of the table resolves, is one the precedence
\* rule allows: the table's own rows, else the global rows whose warehouse is
\* a prefix of the location by decreasing warehouse length, else the global
\* rows whose prefix is the root namespace label.
CredentialPrecedence ==
    \A c \in Clients :
        /\ (resp[c].op = "load_credentials" /\ resp[c].status = 200) =>
              resp[c].credentials \in Precedence(db, resp[c].table_id)
        /\ (resp[c].op = "load" /\ resp[c].status = 200) =>
              resp[c].credentials \in Precedence(db, resp[c].table_id)

\* C24 (longest-prefix config): the config of a load is the translation of the
\* global credential with the longest warehouse that is a prefix of the
\* table's location, and the default when no warehouse is one.
LongestPrefixConfig ==
    \A c \in Clients :
        (resp[c].op = "load" /\ resp[c].status = 200) =>
            LET t == TableById(db, resp[c].table_id)
                matching == {r \in db.storage_credentials :
                                r.table_id = NULL /\ IsPrefix(r.warehouse, t.location)}
                longest == {r \in matching :
                               \A o \in matching : Len(o.warehouse) <= Len(r.warehouse)}
            IN  IF matching = {} THEN resp[c].config = DefaultTableConfig
                ELSE \E r \in longest : resp[c].config = TranslateConfig(r.config)

\* C28 (graceful credential degradation): a load of an existing table during
\* which credential resolution fails answers 200 with an empty credential list.
CredentialFailureDegrades ==
    \A c \in Clients :
        (resp[c].op = "load" /\ "credentials_failed" \in DOMAIN resp[c]) =>
            /\ resp[c].status = 200
            /\ resp[c].credentials = <<>>

\* -------------------------------------------- credential upserts, statement by statement

\* CredentialService.get_credentials: the rows fetch_one may return
GetCredentials(d, prefix, warehouse, table_id) ==
    {r \in d.storage_credentials :
        r.prefix = prefix /\ r.warehouse = warehouse /\ r.table_id = table_id}

\* UPDATE storage_credentials SET config = $1 WHERE id = $2
UpdateCredentialConfig(d, id, config) ==
    [d EXCEPT !.storage_credentials =
        {IF r.id = id THEN [r EXCEPT !.config = config] ELSE r : r \in @}]

\* INSERT INTO storage_credentials (prefix, warehouse, config, table_id).  The
\* row's identity is its id: the store refuses no second row with the same
\* (prefix, warehouse) and table_id NULL.
InsertCredential(d, prefix, warehouse, config, table_id) ==
    [d EXCEPT !.storage_credentials = @ \cup
                 {[id |-> d.next_cred_id, prefix |-> prefix, warehouse |-> warehouse,
                   config |-> config, table_id |-> table_id]},
              !.next_cred_id = @ + 1]

\* create_credentials route: get_credentials and the overwrite test; then
\* upsert_credentials: get_credentials again, then UPDATE or INSERT.
CreateCredentialsStep(c) ==
    /\ proc[c].pc # "idle" /\ proc[c].op = "create_credentials"
    /\ LET p == proc[c]
           req == p.call.request
           found == GetCredentials(db, req.prefix, req.warehouse, req.table_id)
       IN  CASE p.pc = "create_credentials" ->
                  /\ IF found # {} /\ ~req.overwrite
                     THEN Answer(c, [status |-> 409, type |-> "AlreadyExistsException"])
                     ELSE Goto(c, "get_credentials")
                  /\ UNCHANGED <<db, ops>>
             [] p.pc = "get_credentials" ->
                  /\ \E existing \in IF found = {} THEN {NULL} ELSE {r.id : r \in found} :
                        proc' = [proc EXCEPT ![c] =
                                    [p EXCEPT !.pc = "write"] @@ [existing |-> existing]]
                  /\ UNCHANGED <<db, resp, ops>>
             [] p.pc = "write" ->
                  /\ db' = IF p.existing # NULL
                           THEN UpdateCredentialConfig(db, p.existing, req.config)
                           ELSE InsertCredential(db, req.prefix, req.warehouse,
                                                 req.config, req.table_id)
                  /\ Answer(c, [status |-> 201, existing |-> p.existing])
                  /\ UNCHANGED ops
    /\ UNCHANGED <<cache, now>>

\* The credential calls that race: all for the global key ("a", wh).
CredentialCalls ==
    { [op |-> "create_credentials",
       request |-> [prefix |-> "a", warehouse |-> <<"wh">>,
                    config |-> [k \in {"region"} |-> IF o THEN "eu-2" ELSE "eu-1"],
                    table_id |-> NULL, overwrite |-> o]] : o \in BOOLEAN }

\* Each of two clients sends credential upserts, one after the other, and the
\* statements of the two handlers interleave; a table with inline credentials
\* is created in between.
CredentialRaceNext ==
    \/ CreateNamespace("A", <<"a">>)
    \/ \E c \in {"A"} :
          CreateTable(c, <<"a">>,
                      [CHOOSE r \in CreateRequests : r.name = "t1"
                          EXCEPT !.credentials = [k \in {"region"} |-> "us-1"]])
    \/ \E c \in Clients, call \in CredentialCalls :
          /\ ops[c] < MaxOps
          /\ ops' = [ops EXCEPT ![c] = @ + 1]
          /\ proc[c].pc = "idle"
          /\ proc' = [proc EXCEPT ![c] = [pc |-> call.op, op |-> call.op, call |-> call,
                                          pre_db |-> db]]
          /\ Done(c, NoResp)
          /\ UNCHANGED <<db, cache, now>>
    \/ \E c \in Clients : CreateCredentialsStep(c)

CredentialRaceSpec == Init /\ [][CredentialRaceNext]_vars

\* C25 (one global credential per key): no two credential rows with table
\* unset share (prefix, warehouse); an upsert without overwrite that is
\* answered with success found no row for its key when it arrived and left
\* the config of every row that existed then as it was.
OneGlobalCredentialPerKey ==
    /\ \A r1 \in db.storage_credentials, r2 \in db.storage_credentials :
          (r1.table_id = NULL /\ r2.table_id = NULL
              /\ r1.prefix = r2.prefix /\ r1.warehouse = r2.warehouse) => r1 = r2
    /\ \A c \in Clients :
          (resp[c].op = "create_credentials" /\ resp[c].status = 201
              /\ ~resp[c].call.request.overwrite) =>
                 resp[c].existing = NULL

\* ----------------------------------------------------------------- table listing

B64Alphabet == "ABCDEFGHIJKLMNOPQRSTUVWXYZabcdefghijklmnopqrstuvwxyz0123456789+/"

B64Char(n) == SubSeq(B64Alphabet, n + 1, n + 1)

\* The six-bit value of each base64 character.
B64Index ==
    [ch \in {SubSeq(B64Alphabet, i, i) : i \in 1..64} |->
        (CHOOSE i \in 1..64 : SubSeq(B64Alphabet, i, i) = ch) - 1]

RECURSIVE B64Encode(_)
\* base64.b64encode(bytes).decode()
B64Encode(bytes) ==
    IF bytes = <<>> THEN ""
    ELSE LET b1 == bytes[1]
             b2 == IF Len(bytes) >= 2 THEN bytes[2] ELSE 0
             b3 == IF Len(bytes) >= 3 THEN bytes[3] ELSE 0
             c1 == B64Char(b1 \div 4)
             c2 == B64Char((b1 % 4) * 16 + b2 \div 16)
             c3 == B64Char((b2 % 16) * 4 + b3 \div 64)
             c4 == B64Char(b3 % 64)
         IN  IF Len(bytes) = 1 THEN c1 \o c2 \o "=="
             ELSE IF Len(bytes) = 2 THEN c1 \o c2 \o c3 \o "="
             ELSE c1 \o c2 \o c3 \o c4 \o B64Encode(SubSeq(bytes, 4, Len(bytes)))

RECURSIVE B64Decode(_)
\* base64.b64decode(token.encode()) of a padded token
B64Decode(token) ==
    IF token = "" THEN <<>>
    ELSE LET ch(i) == SubSeq(token, i, i)
             i1 == B64Index[ch(1)]
             i2 == B64Index[ch(2)]
             i3 == IF ch(3) = "=" THEN 0 ELSE B64Index[ch(3)]
             i4 == IF ch(4) = "=" THEN 0 ELSE B64Index[ch(4)]
             b1 == i1 * 4 + i2 \div 16
             b2 == (i2 % 16) * 16 + i3 \div 4
             b3 == (i3 % 4) * 64 + i4
         IN  IF ch(3) = "=" THEN <<b1>>
             ELSE IF ch(4) = "=" THEN <<b1, b2>>
             ELSE <<b1, b2, b3>> \o B64Decode(SubSeq(token, 5, Len(token)))

\* TableService.encode_page_token / decode_page_token
EncodePageToken(value) == B64Encode(Bytes(value))
DecodePageToken(token) == Decoded(B64Decode(token))

RECURSIVE OrderByName(_)
\* ... ORDER BY name
OrderByName(S) ==
    IF S = {} THEN <<>>
    ELSE LET first == CHOOSE x \in S : \A y \in S \ {x} : StrBefore(x, y)
         IN  <<first>> \o OrderByName(S \ {first})

\* A listing that announces a further page whenever the page is full.
HasMoreWhenFull(n, page_size) == page_size # 0 /\ n >= page_size

\* "if page_size and len(table_records) > page_size"
HasMore(n, page_size) == page_size # 0 /\ n > page_size

\* TableService.list_tables for a namespace that exists: the page and its
\* token.  page_token is "" and page_size 0 when absent (None takes the
\* branches "" and 0 take).
ListTablesPage(d, levels, page_token, page_size) ==
    LET namespace_id == NamespaceId(d, levels)
        names == {t.name : t \in {x \in d.tables : x.namespace_id = namespace_id}}
        after == IF page_token = "" THEN names
                 ELSE {n \in names : StrBefore(DecodePageToken(page_token), n)}
        table_records ==
            IF page_size # 0 THEN Take(OrderByName(after), page_size + 1)
            ELSE OrderByName(after)
        has_more == HasMore(Len(table_records), page_size)
        page == IF has_more THEN Take(table_records, page_size) ELSE table_records
    IN  [identifiers |-> page,
         next_page_token |-> IF has_more THEN EncodePageToken(page[Len(page)]) ELSE ""]

\* GET /v1/{prefix}/namespaces/{namespace}/tables: list_tables and its route
ListTables(c, levels, page_token, page_size) ==
    /\ proc[c].pc = "idle"
    /\ LET request == [op |-> "list_tables", namespace |-> levels,
                       page_token |-> page_token, page_size |-> page_size]
       IN  IF ~NamespaceExists(db, levels)
           THEN Done(c, request @@ [status |-> 404, type |-> "NoSuchNamespaceException"])
           ELSE Done(c, request @@ [status |-> 200]
                                @@ ListTablesPage(db, levels, page_token, page_size))
    /\ UNCHANGED <<db, cache, now, proc, ops>>

ListedNames == {"t1", "t10", "t2"}

\* One client creating tables in namespace a and listing them page by page.
ListingNext ==
    \/ CreateNamespace("A", <<"a">>)
    \/ \E n \in ListedNames :
          CreateTable("A", <<"a">>,
                      [CHOOSE r \in CreateRequests : r.name = "t1" EXCEPT !.name = n])
    \/ \E l \in {<<"a">>, <<"b">>}, n \in ListedNames, page_size \in 0..MaxPageSize :
          \E page_token \in {"", EncodePageToken(n)} :
              ListTables("A", l, page_token, page_size)

ListingSpec == Init /\ [][ListingNext]_vars

\* The names of the tables of a namespace.
TableNames(d, levels) ==
    {t.name : t \in {x \in d.tables : x.namespace_id = NamespaceId(d, levels)}}

RECURSIVE FollowTokens(_, _, _, _)
\* The identifiers of the pages a client gets that starts at page_token and
\* follows every next_page_token, in the order received.
FollowTokens(d, levels, page_token, page_size) ==
    LET page == ListTablesPage(d, levels, page_token, page_size)
    IN  IF page.next_page_token = "" THEN page.identifiers
        ELSE page.identifiers
                 \o FollowTokens(d, levels, page.next_page_token, page_size)

\* C26 (table listing pagination): a page of a listing with a page size
\* carries a token iff some table of the namespace has a name after the
\* page's last name, the page holds the first page_size names after the
\* cursor in ascending order, and following the tokens from the first page
\* yields every table of the namespace exactly once in ascending name order.
ListingPagination ==
    /\ \A c \in Clients :
          (resp[c].op = "list_tables" /\ resp[c].status = 200 /\ resp[c].page_size # 0) =>
              LET r == resp[c]
                  names == TableNames(db, r.namespace)
                  after == IF r.page_token = "" THEN names
                           ELSE {n \in names : StrBefore(DecodePageToken(r.page_token), n)}
                  last == r.identifiers[Len(r.identifiers)]
              IN  /\ r.identifiers = Take(OrderByName(after), r.page_size)
                  /\ (r.next_page_token # "") <=>
                         /\ r.identifiers # <<>>
                         /\ \E n \in names : StrBefore(last, n)
                  /\ r.next_page_token # "" => DecodePageToken(r.next_page_token) = last
    /\ NamespaceExists(db, <<"a">>) =>
          \A page_size \in 1..MaxPageSize :
              FollowTokens(db, <<"a">>, "", page_size) = OrderByName(TableNames(db, <<"a">>))

\* The second page of a listing of two tables with page size one: the client
\* sent the token of the first page and got the last table and no token.
ListingPaginationWitness ==
    \E c \in Clients :
        /\ resp[c].op = "list_tables" /\ resp[c].status = 200
        /\ resp[c].page_size = 1
        /\ resp[c].page_token = EncodePageToken("t1")
        /\ resp[c].identifiers = <<"t10">>
        /\ TableNames(db, <<"a">>) = {"t1", "t10"}

\* C29 (create-then-load round trip): the metadata a successful create returns
\* is the metadata a load of the table returns in the state the create left.
CreateLoadRoundTrip ==
    \A c \in Clients :
        (resp[c].op = "create" /\ resp[c].status = 200) =>
            LET t == TableById(db, resp[c].table_id)
            IN  resp[c].metadata =
                    BuildTableResponse(db, t.id,
                        [format_version |-> t.format_version, table_uuid |-> t.table_uuid],
                        "all")

\* ------------------------------------------------------- header values and records

\* C31: every stored table has format_version 1 or 2, in every state that create
\* and commits can reach; no upgrade-format-version update leaves another value
\* in the header.
FormatVersionValid ==
    \A t \in db.tables : t.format_version \in {1, 2}

\* C32: once commit_transaction has returned, the transactions row it inserted
\* is not left in status committing: after a successful return the row exists
\* with status completed, after a failed return the row does not exist.
TransactionRecordSettled ==
    \A c \in Clients :
        (resp[c].op = "transaction" /\ "transaction_id" \in DOMAIN resp[c]) =>
            LET rows == {x \in db.transactions :
                            x.transaction_id = resp[c].transaction_id}
            IN  IF resp[c].ok
                THEN rows # {} /\ \A x \in rows : x.status = "completed"
                ELSE rows = {}

\* C33: the two metadata assemblers agree.  On every step that returns a
\* successful commit, the metadata document of the commit response
\* (_build_table_metadata) equals the document an unconditional load with
\* snapshots=all issued right after it returns (build_table_response),
\* schema-id, spec-id and partition field-id included, and assembling the
\* table's state a second time yields the document of the response again.
AssemblersAgree ==
    [][\A c \in Clients :
          (resp'[c] # resp[c] /\ resp'[c].op = "commit" /\ resp'[c].ok) =>
              LET r == resp'[c]
                  t == TableById(db', r.table_id)
                  basic == [format_version |-> t.format_version,
                            table_uuid |-> t.table_uuid]
              IN  /\ r.metadata = BuildTableResponse(db', r.table_id, basic, "all")
                  /\ r.metadata = BuildTableMetadata(db', r.table_id)
      ]_vars

\* ----------------------------------------------------------- schema ids

\* Updates that add schemas with and without an id, remove one, and move the
\* current-schema pointer to the latest.
SchemaUpdates ==
    { [action |-> "add-schema", schema |-> [schema_id |-> NULL, fields |-> {3}]],
      [action |-> "add-schema", schema |-> [schema_id |-> 5, fields |-> {1}]],
      [action |-> "remove-schemas", schema_ids |-> {0}],
      [action |-> "set-current-schema", schema_id |-> -1] }

\* Client B creates the table, client A commits to it; the calls do not overlap.
SchemaNext ==
    \/ Tick
    \/ CreateNamespace("B", <<"a">>)
    \/ /\ proc["A"].pc = "idle"
       /\ \E req \in {r \in CreateRequests : r.name = "t1"} : CreateTable("B", <<"a">>, req)
    \/ UpdateTableBegin("A", <<"a">>, "t1", <<>>)
    \/ \E u \in SchemaUpdates : ApplyUpdateStep("A", u)
    \/ UpdateTableFinish("A")

SchemaSpec == Init /\ [][SchemaNext]_vars

AddSchemaWithoutId(u) == u.action = "add-schema" /\ u.schema.schema_id = NULL
SetCurrentToLatest(u) == u.action = "set-current-schema" /\ u.schema_id = -1

\* C34: an add-schema without schema-id stores exactly one new schema row, under
\* the id max(existing schema ids) + 1 (0 when the table has none), which no
\* schema stored for the table at that moment has; and a commit whose updates
\* are [add-schema without schema-id, set-current-schema(-1)] returns with
\* current_schema_id equal to the id of the schema that commit added.
SchemaIdAssignment ==
    [][\A c \in Clients :
          /\ (/\ proc[c].pc = "updates" /\ proc'[c].pc = "updates"
              /\ Len(proc'[c].updates) = Len(proc[c].updates) + 1
              /\ AddSchemaWithoutId(proc'[c].updates[Len(proc'[c].updates)])) =>
                 LET tid == proc[c].table_id
                     old == Rows(db, "schemas", tid)
                     ids == {r.schema_id : r \in old}
                     new == Rows(db', "schemas", tid) \ old
                     expected == IF ids = {} THEN 0 ELSE Max(ids) + 1
                 IN  /\ old \subseteq Rows(db', "schemas", tid)
                     /\ Cardinality(new) = 1
                     /\ \A r \in new : r.schema_id = expected /\ r.schema_id \notin ids
          /\ (/\ resp'[c] # resp[c] /\ resp'[c].op = "commit" /\ resp'[c].ok
              /\ Len(resp'[c].updates) = 2
              /\ AddSchemaWithoutId(resp'[c].updates[1])
              /\ SetCurrentToLatest(resp'[c].updates[2])) =>
                 LET r == resp'[c]
                     added == Rows(db', "schemas", r.table_id) \ r.pre.schemas
                 IN  /\ Cardinality(added) = 1
                     /\ \A x \in added :
                           TableById(db', r.table_id).current_schema_id = x.schema_id
      ]_vars

\* A commit of [add-schema without schema-id, set-current-schema(-1)] has
\* returned on a table that held a schema before: the pointer is on the new id.
SchemaIdAssignmentWitness ==
    /\ Committed("A")
    /\ Len(resp["A"].updates) = 2
    /\ AddSchemaWithoutId(resp["A"].updates[1])
    /\ SetCurrentToLatest(resp["A"].updates[2])
    /\ resp["A"].pre.schemas # {}
    /\ TableById(db, resp["A"].table_id).current_schema_id = 1

\* C35: the metadata_location a successful update_table returns, which is also
\* the metadata_file of an entry of the table's metadata log, is built from the
\* location and the format_version of the metadata document that same commit
\* returns, whatever updates the commit carried.
MetadataLocationMatchesDocument ==
    \A c \in Clients :
        Committed(c) =>
            /\ resp[c].metadata_location.location = resp[c].metadata.location
            /\ resp[c].metadata_location.version = resp[c].metadata.format_version
            /\ \E e \in Rows(db, "metadata_log", resp[c].table_id) :
                  e.metadata_file = resp[c].metadata_location

\* ------------------------------------------------------------- cache entries

\* C36: whenever a conditional load is answered 200 from the cache, the
\* table-uuid inside the body is the uuid part of the ETag header of that same
\* response, whatever creates, loads, drops, re-creates and renames came before.
CachedBodyMatchesETag ==
    \A c \in Clients :
        (resp[c].op = "load" /\ resp[c].status = 200 /\ resp[c].cached) =>
            resp[c].body.metadata.table_uuid = resp[c].etag[1]

\* Two identifiers whose dotted forms coincide: table c of namespace [a, b] and
\* table b.c of namespace [a]; and a third that shares no key.
KeyIdentifiers ==
    { [namespace |-> <<"a", "b">>, name |-> "c"],
      [namespace |-> <<"a">>, name |-> "b.c"],
      [namespace |-> <<"a">>, name |-> "c"] }

KeyCreateRequest(name) ==
    [(CHOOSE r \in CreateRequests : r.name = "t1") EXCEPT !.name = name]

\* One client creating and loading those tables; nothing is dropped or renamed.
CacheKeyNext ==
    \/ Tick
    \/ \E levels \in {i.namespace : i \in KeyIdentifiers} : CreateNamespace("A", levels)
    \/ \E i \in KeyIdentifiers : CreateTable("A", i.namespace, KeyCreateRequest(i.name))
    \/ \E i \in KeyIdentifiers :
          \E inm \in IfNoneMatchValues(i.namespace, i.name) :
              LoadTable("A", i.namespace, i.name, "all", inm)

CacheKeySpec == Init /\ [][CacheKeyNext]_vars

\* The identifiers of the tables in the store.
Identifiers(d) ==
    {[namespace |-> n.levels, name |-> t.name] :
        <<n, t>> \in {x \in d.namespaces \X d.tables : x[2].namespace_id = x[1].id}}

\* C37: two different (namespace path, table name) identifiers never have the
\* same response-cache key, and a load answered with a body carries the
\* metadata of the table it names, never the envelope cached by a load of a
\* table with another identifier.
CacheKeyInjective ==
    /\ \A i, j \in Identifiers(db) :
          i # j => CacheKey(i.namespace, i.name) # CacheKey(j.namespace, j.name)
    /\ \A c \in Clients :
          (resp[c].op = "load" /\ resp[c].status = 200) =>
              resp[c].body.metadata.table_uuid =
                  TableById(db, resp[c].table_id).table_uuid

\* ------------------------------------------------- create_table when a statement fails

\* The statements of create_table that follow the INSERT INTO tables, in order.
CreateStatements == <<"schemas", "partition_specs", "sort_orders", "storage_credentials">>

\* The store after create_table has run its inserts up to, and not including,
\* statement number failing of CreateStatements: every db.execute before it has
\* committed on its own connection.
InsertedBefore(d, ns_id, levels, req, ms, failing) ==
    LET all == InsertNewTable(d, ns_id, levels, req, ms)
        kept(k, child) == IF failing > k THEN all[child] ELSE d[child]
    IN  [all EXCEPT !.schemas = kept(1, "schemas"),
                    !.partition_specs = kept(2, "partition_specs"),
                    !.sort_orders = kept(3, "sort_orders")]

\* create_table when the store raises an error on one of those statements: the
\* exception leaves "async with db.transaction()", whose connection ran none
\* of the inserts, and the route answers 500.
CreateTableFailing(c, levels, req, failing) ==
    /\ proc[c].pc = "idle"
    /\ LET ns_id == NamespaceId(db, levels)
           tid == db.next_table_id
           inserted == InsertedBefore(db, ns_id, levels, req, now, failing)
       IN  IF ns_id = NULL
           THEN Done(c, [op |-> "create", status |-> 404]) /\ UNCHANGED <<db, ops>>
           ELSE IF TableRow(db, ns_id, req.name).id # NULL
           THEN Done(c, [op |-> "create", status |-> 409]) /\ UNCHANGED <<db, ops>>
           ELSE /\ ops[c] < MaxOps
                /\ db.next_table_id <= MaxTables
                /\ CreateStatements[failing] = "storage_credentials" =>
                       /\ req.credentials # <<>>
                       /\ CredentialsForLocation(inserted, TableById(inserted, tid).location) = {}
                /\ db' = inserted
                /\ ops' = [ops EXCEPT ![c] = @ + 1]
                /\ Done(c, [op |-> "create", status |-> 500, table_id |-> tid,
                            statement |-> CreateStatements[failing]])
    /\ UNCHANGED <<cache, now, proc>>

\* The create requests of the commit engine, and one with inline credentials.
FailingCreateRequests ==
    CreateRequests \cup
    {[r EXCEPT !.credentials = [k \in {"region"} |-> "us-1"]] :
        r \in {x \in CreateRequests : x.name = "t1"}}

\* One client creating and dropping tables against a store that may fail a statement.
CreateFailureNext ==
    \/ Tick
    \/ CreateNamespace("A", <<"a">>)
    \/ \E req \in FailingCreateRequests : CreateTable("A", <<"a">>, req)
    \/ \E req \in FailingCreateRequests, failing \in 1..Len(CreateStatements) :
          CreateTableFailing("A", <<"a">>, req, failing)
    \/ \E n \in {"t1", "t2"} : DropTable("A", <<"a">>, n)

CreateFailureSpec == Init /\ [][CreateFailureNext]_vars

\* C38: create_table is all-or-nothing.  After a create that failed once the
\* table row was inserted, neither that row nor any child row of it is in the
\* store; so every table in the store has its initial schema, partition spec
\* and sort order rows.
CreateAllOrNothing ==
    /\ \A c \in Clients :
          (resp[c].op = "create" /\ resp[c].status = 500) =>
              /\ TableById(db, resp[c].table_id).id = NULL
              /\ \A child \in {"schemas", "partition_specs", "sort_orders"} :
                    Rows(db, child, resp[c].table_id) = {}
    /\ \A t \in db.tables :
          \A child \in {"schemas", "partition_specs", "sort_orders"} :
              Rows(db, child, t.id) # {}

\* ------------------------------------- namespace properties, statement by statement

\* update_properties: namespace_exists and the common-keys check, then SELECT
\* properties, then the removal and update loops and UPDATE namespaces.  The
\* map the SELECT returned stays in the handler's hands until the UPDATE.
UpdatePropertiesStep(c) ==
    /\ proc[c].pc # "idle" /\ proc[c].op = "update_properties"
    /\ LET p == proc[c]
           levels == p.call.namespace
           req == p.call.request
           raise(message) ==
               Answer(c, [message |-> message] @@ UpdatePropertiesError(message))
           common_keys == Range(req.removals) \cap DOMAIN req.updates
       IN  CASE p.pc = "update_properties" ->
                  /\ IF ~NamespaceExists(db, levels)
                     THEN raise("Namespace not found: " \o Repr(levels))
                     ELSE IF common_keys # {}
                     THEN raise("Cannot remove and update the same property keys: "
                                    \o ReprSet(common_keys))
                     ELSE Goto(c, "select")
                  /\ UNCHANGED db
             [] p.pc = "select" ->
                  /\ IF ~NamespaceExists(db, levels)
                     THEN Answer(c, [status |-> 500])
                     ELSE /\ proc' = [proc EXCEPT ![c] =
                                         [p EXCEPT !.pc = "update"] @@
                                         [properties |-> NamespaceProperties(db, levels)]]
                          /\ UNCHANGED resp
                  /\ UNCHANGED db
             [] p.pc = "update" ->
                  LET after == ProcessRemovals([properties |-> p.properties,
                                                removed |-> <<>>, missing |-> <<>>],
                                               req.removals, 1)
                      properties == MergeProps(after.properties, req.updates)
                  IN  /\ db' = SetNamespaceProperties(db, levels, properties)
                      /\ Answer(c, [status |-> 200,
                                    updated |-> SetToSeq(DOMAIN req.updates),
                                    removed |-> after.removed,
                                    missing |-> after.missing])
    /\ UNCHANGED <<cache, now, ops>>

\* updateProperties calls on namespace a: two that set different keys, one
\* that removes a key, one that sets it.
PropertyCalls ==
    { [op |-> "update_properties", namespace |-> <<"a">>, request |-> req] :
        req \in { [removals |-> <<>>, updates |-> [k \in {"owner"} |-> "ann"]],
                  [removals |-> <<>>, updates |-> [k \in {"team"} |-> "core"]],
                  [removals |-> <<"owner">>, updates |-> NoProps],
                  [removals |-> <<"team">>, updates |-> [k \in {"tier"} |-> "gold"]] } }

\* Namespace a is created and given properties by one client; then each of two
\* clients sends one updateProperties call, and the statements of the two
\* handlers interleave.
PropertyRaceNext ==
    \/ NoRaceYet /\ CreateNamespace("A", <<"a">>)
    \/ NoRaceYet /\ \E req \in {r \in PropertyRequests : r.removals = <<>>} :
                        UpdateProperties("A", <<"a">>, req)
    \/ \E c \in Clients, call \in PropertyCalls :
          /\ "call" \notin DOMAIN resp[c]
          /\ Call(c, call.op, call)
    \/ \E c \in Clients : UpdatePropertiesStep(c)

PropertyRaceSpec == Init /\ [][PropertyRaceNext]_vars

\* The keys a request touches.
Touched(req) == Range(req.removals) \cup DOMAIN req.updates

\* C39: when two updateProperties requests on one namespace touch disjoint
\* keys and both have succeeded, the stored properties reflect both: every
\* key either request set has the value it set, and no key either request
\* removed is present, however their read and write steps interleaved.
NoLostPropertyUpdate ==
    LET answered(c) == /\ resp[c].op = "update_properties"
                       /\ "call" \in DOMAIN resp[c]
                       /\ resp[c].status = 200
        reqA == resp["A"].call.request
        reqB == resp["B"].call.request
        stored == NamespaceProperties(db, <<"a">>)
        reflected(req) ==
            /\ \A k \in DOMAIN req.updates : k \in DOMAIN stored /\ stored[k] = req.updates[k]
            /\ \A k \in Range(req.removals) : k \notin DOMAIN stored
    IN  (answered("A") /\ answered("B") /\ Touched(reqA) \cap Touched(reqB) = {}) =>
            reflected(reqA) /\ reflected(reqB)

\* ------------------------------------------------------ concurrent commits

\* The request both clients send: the table is at schema 0.
StaleSafeRequirements == <<[type |-> "assert-current-schema-id", current_schema_id |-> 0]>>

StaleSafeUpdates ==
    << [action |-> "add-schema", schema |-> [schema_id |-> NULL, fields |-> {3}]],
       [action |-> "set-current-schema", schema_id |-> -1] >>

\* No client has called update_table so far.
NoCommitYet == \A c \in Clients : proc[c].pc = "idle" /\ resp[c].op # "commit"

\* Two clients, each sending that request once to a table set up beforehand;
\* their statements interleave.
ConcurrentNext ==
    \/ Tick
    \/ NoCommitYet /\ CreateNamespace("A", <<"a">>)
    \/ NoCommitYet /\ \E req \in CreateRequests : CreateTable("A", <<"a">>, req)
    \/ \E c \in Clients :
          /\ resp[c].op # "commit"
          /\ UpdateTableBegin(c, <<"a">>, "t1", StaleSafeRequirements)
    \/ \E c \in Clients :
          /\ proc[c].pc = "updates"
          /\ proc[c].applied < Len(StaleSafeUpdates)
          /\ ApplyUpdateStep(c, StaleSafeUpdates[proc[c].applied + 1])
    \/ \E c \in Clients :
          /\ proc[c].pc = "updates"
          /\ proc[c].applied = Len(StaleSafeUpdates)
          /\ UpdateTableFinish(c)

ConcurrentSpec == Init /\ [][ConcurrentNext]_vars

\* C2 (optimistic concurrency): once both clients have their answer, exactly one
\* commit succeeded and the other was rejected naming assert-current-schema-id.
ExactlyOneCommits ==
    (\A c \in Clients : resp[c].op = "commit" /\ "table_id" \in DOMAIN resp[c]) =>
        /\ Cardinality({c \in Clients : resp[c].ok}) = 1
        /\ \A c \in Clients :
              ~resp[c].ok => /\ resp[c].error = "Table requirement not met"
                             /\ resp[c].type = "assert-current-schema-id"

\* C7 (requirement semantics): a commit that has begun to write had every
\* requirement holding of the table as it was when its first write was applied,
\* and a rejected commit names a requirement that does not hold of the table.
RequirementsHoldAtWrite ==
    \A c \in Clients :
        /\ (proc[c].pc = "updates" /\ proc[c].writes_from # PyNone) =>
              LET p == proc[c]
              IN  \A j \in 1..Len(p.requirements) :
                      ValidateRequirement(p.writes_from, p.table_id,
                                          TableById(p.writes_from, p.table_id),
                                          p.requirements[j])
        /\ Committed(c) =>
              LET r == resp[c]
              IN  \A j \in 1..Len(r.requirements) :
                      ValidateRequirement(r.writes_from, r.table_id,
                                          TableById(r.writes_from, r.table_id),
                                          r.requirements[j])
        /\ RequirementRejected(c) =>
              LET r == resp[c]
              IN  ~ValidateRequirement(r.pre_db, r.table_id, r.pre.header,
                                       r.requirements[r.index])

====
